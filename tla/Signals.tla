------------------------------ MODULE Signals ------------------------------
(***************************************************************************)
(* Signals: kill(), signal(), sigreturn(), handle_signals() on the way back *)
(* to user space, and what fork() and exec() do to the signal state.        *)
(*                                                                         *)
(* A user program is its trap frame: which code it is in (main, or the      *)
(* handler of a signal), its registers, of which a0 is shown, and the hart  *)
(* that the next trap will believe it runs on.  kkill() reads, changes and  *)
(* writes pending_signals with p->lock held; kexec() clears it without the  *)
(* lock, so the read and the write of kkill() are separate steps.           *)
(***************************************************************************)
EXTENDS Integers, FiniteSets

CONSTANTS Proc,           \* slots of the process table
          First,          \* the process that exists at the start
          Hart, Hart0,    \* the harts, and hart 0
          Sig,            \* the signals that are sent, besides SIGKILL
          SIGKILL,
          Load            \* bounds: the harts, the signals, the calls of kill(),
                          \* and whether there is fork()

ASSUME SignalsConstants ==
  /\ First \in Proc
  /\ Sig \subseteq Nat /\ SIGKILL \in Nat \ Sig
  /\ Hart0 \in Hart
  /\ Load \subseteq [harts : SUBSET Hart, sigs : SUBSET Sig, sends : Nat, forks : BOOLEAN]

None == -1   \* no kkill() under way
Main == -1   \* a frame outside every handler

VARIABLES
  place,    \* where p is: unused, user, or a point of usertrap()
  cpu,      \* the hart p runs on
  tf,       \* p->trapframe
  sigtf,    \* p->sig_trapframe
  valid,    \* p->sig_trapframe_valid
  pending,  \* p->pending_signals
  handled,  \* p->signal_handlers_valid
  killed,   \* p->killed
  sending,  \* the signal of the kkill() that holds p->lock, or None
  read,     \* the pending_signals it has read
  sends,    \* calls of kill() so far
  load,     \* what happens in this behaviour
  expect    \* history: what main should find when it runs again

userVars == <<tf, sigtf, valid>>
sigVars == <<pending, handled, killed>>
sendVars == <<sending, read, sends, load>>
vars == <<place, cpu, tf, sigtf, valid, pending, handled, killed, sending, read,
          sends, load, expect>>

\* A cleared frame; the first hart is hart 0.
Zero == [code |-> Main, a0 |-> 0, hart |-> Hart0]

Frame == [code : Sig \cup {Main}, a0 : Int, hart : Hart]

Least(S) == CHOOSE x \in S : \A y \in S : x <= y

Free(p) == sending[p] = None
InUser(p) == place[p] = "user"
InHandler(p) == tf[p].code # Main
Goto(p, l) == place' = [place EXCEPT ![p] = l]

\* The program, or its system call, puts r into a0; main will see it.
Return(p, r) ==
  /\ tf' = [tf EXCEPT ![p].a0 = r]
  /\ expect' = IF InHandler(p) THEN expect ELSE [expect EXCEPT ![p] = r]

(***************************************************************************)
(* User space.                                                              *)
(***************************************************************************)

\* The program runs on and changes its registers.
UserStep(p) ==
  /\ InUser(p)
  /\ \E r \in {0, 1} : Return(p, r)
  /\ UNCHANGED <<place, cpu, sigtf, valid, sigVars, sendVars>>

\* A timer interrupt: yield(), and p goes on on some hart.
timer(p) ==
  /\ InUser(p)
  /\ \E h \in load.harts : cpu' = [cpu EXCEPT ![p] = h]
  /\ Goto(p, "signals")
  /\ UNCHANGED <<userVars, sigVars, sendVars, expect>>

\* A fault: setkilled().  A handler that returns instead of calling
\* sigreturn() jumps to address -1 and ends here too.
fault(p) ==
  /\ InUser(p)
  /\ Free(p)
  /\ killed' = [killed EXCEPT ![p] = TRUE]
  /\ Goto(p, "signals")
  /\ UNCHANGED <<cpu, userVars, pending, handled, sendVars, expect>>

\* usertrap() for a system call, unless the process has been killed.
Syscall(p) == InUser(p) /\ Free(p) /\ ~killed[p]

syscall_killed(p) ==
  /\ InUser(p)
  /\ Free(p)
  /\ killed[p]
  /\ Goto(p, "exit")
  /\ UNCHANGED <<cpu, userVars, sigVars, sendVars, expect>>

(***************************************************************************)
(* System calls.                                                            *)
(***************************************************************************)

\* SIGKILL cannot be caught.  signal() returns the previous handler, 0 when
\* there was none.
Rejected(s) == s = SIGKILL

sys_signal(p, s) ==
  /\ Syscall(p)
  /\ \/ /\ Rejected(s)
        /\ Return(p, -1)
        /\ UNCHANGED handled
     \/ /\ ~Rejected(s)
        /\ handled' = [handled EXCEPT ![p] = @ \cup {s}]
        /\ Return(p, IF s \in handled[p] THEN 1 ELSE 0)
  /\ Goto(p, "signals")
  /\ UNCHANGED <<cpu, sigtf, valid, pending, killed, sendVars>>

\* sigreturn() puts the saved frame back; syscall() then stores its result in
\* a0, and the result is the saved a0.
Restored_Zero(p) == [sigtf[p] EXCEPT !.a0 = 0]
Restored(p) == sigtf[p]

sys_sigreturn(p) ==
  /\ Syscall(p)
  /\ \/ /\ valid[p]
        /\ tf' = [tf EXCEPT ![p] = Restored(p)]
        /\ valid' = [valid EXCEPT ![p] = FALSE]
        /\ UNCHANGED expect
     \/ /\ ~valid[p]
        /\ Return(p, -1)
        /\ UNCHANGED valid
  /\ Goto(p, "signals")
  /\ UNCHANGED <<cpu, sigtf, sigVars, sendVars>>

\* Any other system call: it may sleep, and returns on some hart.
sys_other(p) ==
  /\ Syscall(p)
  /\ Return(p, 1)
  /\ \E h \in load.harts : cpu' = [cpu EXCEPT ![p] = h]
  /\ Goto(p, "signals")
  /\ UNCHANGED <<sigtf, valid, sigVars, sendVars>>

\* kfork(): the child has the parent's handlers, no pending signal and no
\* saved frame.  forkret() goes straight to prepare_return().
ChildValid(p) == FALSE

kfork(p, q) ==
  /\ Syscall(p)
  /\ load.forks
  /\ place[q] = "unused"
  /\ place' = [place EXCEPT ![p] = "signals", ![q] = "return"]
  /\ tf' = [tf EXCEPT ![p].a0 = 1, ![q] = [tf[p] EXCEPT !.a0 = 0]]
  /\ expect' = [expect EXCEPT ![p] = IF InHandler(p) THEN @ ELSE 1,
                              ![q] = IF InHandler(p) THEN expect[p] ELSE 0]
  /\ sigtf' = [sigtf EXCEPT ![q] = Zero]
  /\ valid' = [valid EXCEPT ![q] = ChildValid(p)]
  /\ pending' = [pending EXCEPT ![q] = {}]
  /\ handled' = [handled EXCEPT ![q] = handled[p]]
  /\ killed' = [killed EXCEPT ![q] = FALSE]
  /\ cpu' = [cpu EXCEPT ![q] = cpu[p]]
  /\ UNCHANGED sendVars

\* kexec() builds the new program, then commits to its frame and calls
\* init_signals(), without p->lock.
NewFrame(p) == [code |-> Main, a0 |-> 1, hart |-> tf[p].hart]

init_signals(p) ==
  /\ pending' = [pending EXCEPT ![p] = {}]
  /\ sigtf' = [sigtf EXCEPT ![p] = Zero]
  /\ valid' = [valid EXCEPT ![p] = FALSE]
  /\ handled' = [handled EXCEPT ![p] = {}]

kexec(p) ==
  /\ Syscall(p)
  /\ Goto(p, "exec")
  /\ UNCHANGED <<cpu, userVars, sigVars, sendVars, expect>>

\* The file is missing or not a program, or memory runs out: the old program goes on.
kexec_fails(p) ==
  /\ place[p] = "exec"
  /\ Return(p, -1)
  /\ Goto(p, "signals")
  /\ UNCHANGED <<cpu, sigtf, valid, sigVars, sendVars>>

kexec_commit(p) ==
  /\ place[p] = "exec"
  /\ tf' = [tf EXCEPT ![p] = NewFrame(p)]
  /\ expect' = [expect EXCEPT ![p] = NewFrame(p).a0]
  /\ init_signals(p)
  /\ Goto(p, "signals")
  /\ UNCHANGED <<cpu, killed, sendVars>>

(***************************************************************************)
(* kkill(), called by some other process.                                   *)
(***************************************************************************)

\* acquire(&p->lock) and the load of pending_signals.  SIGKILL only sets a flag.
kkill(p, s) ==
  /\ place[p] # "unused"
  /\ Free(p)
  /\ sends < load.sends
  /\ sends' = sends + 1
  /\ \/ /\ s = SIGKILL
        /\ killed' = [killed EXCEPT ![p] = TRUE]
        /\ UNCHANGED <<sending, read>>
     \/ /\ s # SIGKILL
        /\ sending' = [sending EXCEPT ![p] = s]
        /\ read' = [read EXCEPT ![p] = pending[p]]
        /\ UNCHANGED killed
  /\ UNCHANGED <<place, cpu, userVars, pending, handled, load, expect>>

\* The store of pending_signals and release(&p->lock).
kkill_store(p) ==
  /\ ~Free(p)
  /\ pending' = [pending EXCEPT ![p] = read[p] \cup {sending[p]}]
  /\ sending' = [sending EXCEPT ![p] = None]
  /\ read' = [read EXCEPT ![p] = {}]
  /\ UNCHANGED <<place, cpu, userVars, handled, killed, sends, load, expect>>

(***************************************************************************)
(* The way back to user space.                                              *)
(***************************************************************************)

\* No handler is running that has still to return.
MayHandle_Nested(p) == pending[p] # {}
MayHandle(p) == ~valid[p] /\ pending[p] # {}

Deliver(p, s) ==
  /\ pending' = [pending EXCEPT ![p] = @ \ {s}]
  /\ \/ /\ s = SIGKILL \/ s \notin handled[p]
        /\ killed' = [killed EXCEPT ![p] = TRUE]
        /\ UNCHANGED userVars
     \/ /\ s # SIGKILL /\ s \in handled[p]
        /\ sigtf' = [sigtf EXCEPT ![p] = tf[p]]
        /\ valid' = [valid EXCEPT ![p] = TRUE]
        /\ tf' = [tf EXCEPT ![p].code = s, ![p].a0 = s]
        /\ UNCHANGED killed

handle_signals(p) ==
  /\ place[p] = "signals"
  /\ Free(p)
  /\ \/ /\ MayHandle(p)
        /\ Deliver(p, Least(pending[p]))
     \/ /\ ~MayHandle(p)
        /\ UNCHANGED <<userVars, pending, killed>>
  /\ Goto(p, "check")
  /\ UNCHANGED <<cpu, handled, sendVars, expect>>

\* if (killed(p)) kexit(-1);
AfterCheck(p) == IF killed[p] THEN "exit" ELSE "return"
check_killed(p) ==
  /\ place[p] = "check"
  /\ Free(p)
  /\ Goto(p, AfterCheck(p))
  /\ UNCHANGED <<cpu, userVars, sigVars, sendVars, expect>>

\* prepare_return(): kernel_hartid is set anew on every return.
HartSet(p) == cpu[p]
prepare_return(p) ==
  /\ place[p] = "return"
  /\ tf' = [tf EXCEPT ![p].hart = HartSet(p)]
  /\ Goto(p, "user")
  /\ UNCHANGED <<cpu, sigtf, valid, sigVars, sendVars, expect>>

\* kexit(), and the parent's freeproc() with its init_signals().
kexit(p) ==
  /\ place[p] = "exit"
  /\ Free(p)
  /\ init_signals(p)
  /\ killed' = [killed EXCEPT ![p] = FALSE]
  /\ tf' = [tf EXCEPT ![p] = Zero]
  /\ Goto(p, "unused")
  /\ UNCHANGED <<cpu, sendVars, expect>>

(***************************************************************************)
(* The specification.                                                       *)
(***************************************************************************)

Init ==
  /\ place = [p \in Proc |-> IF p = First THEN "user" ELSE "unused"]
  /\ load \in Load
  /\ \E h \in load.harts :
       /\ cpu = [p \in Proc |-> h]
       /\ tf = [p \in Proc |-> [Zero EXCEPT !.hart = h]]
  /\ sigtf = [p \in Proc |-> Zero]
  /\ valid = [p \in Proc |-> FALSE]
  /\ pending = [p \in Proc |-> {}]
  /\ handled = [p \in Proc |-> {}]
  /\ killed = [p \in Proc |-> FALSE]
  /\ sending = [p \in Proc |-> None]
  /\ read = [p \in Proc |-> {}]
  /\ sends = 0
  /\ expect = [p \in Proc |-> 0]

\* What the kernel does by itself.
KernelStep(p) ==
  \/ kexec_commit(p) \/ kexec_fails(p) \/ handle_signals(p) \/ check_killed(p) \/ prepare_return(p)
  \/ kexit(p) \/ kkill_store(p)

Next ==
  \E p \in Proc :
    \/ KernelStep(p)
    \/ UserStep(p) \/ timer(p) \/ fault(p) \/ syscall_killed(p)
    \/ sys_sigreturn(p) \/ sys_other(p) \/ kexec(p)
    \/ \E q \in Proc : kfork(p, q)
    \/ \E s \in load.sigs \cup {SIGKILL} : sys_signal(p, s) \/ kkill(p, s)

Spec == Init /\ [][Next]_vars

\* The kernel goes on, timer interrupts keep coming, and a handler calls
\* sigreturn() in the end, as it must.
Fairness ==
  \A p \in Proc :
    /\ WF_vars(KernelStep(p))
    /\ WF_vars(timer(p))
    /\ SF_vars(InHandler(p) /\ sys_sigreturn(p))

FairSpec == Spec /\ Fairness

(***************************************************************************)
(* Properties.                                                              *)
(***************************************************************************)

\* A trap from user space finds the hart it happens on in the trap frame, also
\* after sigreturn() has put back a frame saved on another hart; and a program
\* outside its handlers finds its registers as it left them, or as its system
\* call left them, whatever signals interrupted it in between.
MainUndisturbed ==
  \A p \in Proc : InUser(p) =>
    /\ tf[p].hart = cpu[p]
    /\ ~InHandler(p) => tf[p].a0 = expect[p]

\* A process that has not been forked inside a handler has a saved frame exactly
\* while it runs a handler: the handler's sigreturn() finds the interrupted
\* context, whatever other signals came in between, and a program started by
\* exec() inside a handler cannot jump back into the program before it.
FrameExact == ~load.forks => \A p \in Proc : InUser(p) => (valid[p] <=> InHandler(p))

\* The types of the state.
TypeOK ==
  /\ place \in [Proc -> {"unused", "user", "signals", "exec", "check", "return", "exit"}]
  /\ cpu \in [Proc -> Hart]
  /\ tf \in [Proc -> Frame] /\ sigtf \in [Proc -> Frame] /\ valid \in [Proc -> BOOLEAN]
  /\ pending \in [Proc -> SUBSET Sig] /\ handled \in [Proc -> SUBSET Sig]
  /\ killed \in [Proc -> BOOLEAN]
  /\ sending \in [Proc -> Sig \cup {None}] /\ read \in [Proc -> SUBSET Sig]
  /\ sends \in Nat /\ load \in Load /\ expect \in [Proc -> Int]

\* What the two rest on.  A frame of main, current or saved, holds what main
\* expects; there is no saved frame outside the handlers; and without fork() the
\* saved frame is one of main and exists exactly inside a handler.
FrameInv ==
  \A p \in Proc : place[p] # "unused" =>
    /\ InUser(p) => tf[p].hart = cpu[p]
    /\ ~InHandler(p) => ~valid[p] /\ tf[p].a0 = expect[p]
    /\ valid[p] /\ sigtf[p].code = Main => sigtf[p].a0 = expect[p]
    /\ ~load.forks => IF valid[p] THEN sigtf[p].code = Main ELSE ~InHandler(p)

=============================================================================
