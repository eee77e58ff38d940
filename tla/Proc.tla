-------------------------------- MODULE Proc --------------------------------
(***************************************************************************)
(* The process table of kernel/proc.c on a multiprocessor: fork, exit,      *)
(* wait, kill, sleep and wakeup, yield, and the per-CPU scheduler.          *)
(*                                                                         *)
(* A CPU runs either its scheduler or the kernel thread of one process.     *)
(* p->lock and wait_lock are modelled as the locks they are, held by a CPU; *)
(* p->lock is taken by the process and released by the scheduler, or the    *)
(* other way round, across swtch().  One step is a stretch of code between  *)
(* two acquisitions that nobody else can observe the middle of: everything  *)
(* it touches is protected by a lock it holds from start to end.            *)
(***************************************************************************)
EXTENDS Integers, FiniteSets

CONSTANTS CPU,             \* the harts
          NPROC,           \* size of the process table
          None,            \* a null pointer
          KThreads,        \* slots of the kernel threads made by main()
          KillPids,        \* the pids kill() is called with
          MaxPid           \* bound on nextpid

Slot == 1..NPROC
initproc == 1
FirstPid == Cardinality(KThreads) + 2

ASSUME ProcConstants ==
  /\ NPROC \in Nat \ {0}
  /\ None \notin Slot
  /\ None \notin CPU
  /\ KThreads \subseteq Slot \ {initproc}
  /\ IsFiniteSet(KThreads)
  /\ KillPids \subseteq Nat
  /\ MaxPid \in Nat
  /\ FirstPid <= MaxPid

VARIABLES
  state,      \* p->state
  pid,        \* p->pid
  parent,     \* p->parent
  killed,     \* p->killed
  chan,       \* p->chan; a process sleeps in kwait() on its own slot
  kthread,    \* p->is_kthread
  lock,       \* the CPU holding p->lock, or None
  wait_lock,  \* the CPU holding wait_lock, or None
  cproc,      \* c->proc
  stack,      \* the process whose kernel stack CPU c runs on; None: scheduler
  pc,         \* where the kernel thread of each slot is
  resume,     \* where it goes on when sched() returns and p->lock is released
  np,         \* the child a process is making in kfork()
  nextpid     \* nextpid

tblVars == <<state, pid, parent, killed, chan, kthread>>
lockVars == <<lock, wait_lock>>
cpuVars == <<cproc, stack>>
thrVars == <<pc, resume, np>>
vars == <<state, pid, parent, killed, chan, kthread, lock, wait_lock, cproc,
          stack, pc, resume, np, nextpid>>

\* Where a thread can stand with interrupts on and no lock held, so that a
\* timer interrupt makes it yield: in user space, about to return there, or
\* in the kernel before its next acquire().
Preemptible == {"user", "return", "fork_parent", "fork_runnable", "exit", "wait", "kfunc"}

\* CPU c executes process p in the kernel or in user space.
Runs(c, p) == stack[c] = p /\ cproc[c] = p
At(c, p, l) == Runs(c, p) /\ pc[p] = l

Free(p) == lock[p] = None
Goto(p, l) == pc' = [pc EXCEPT ![p] = l]

Children(p) == {q \in Slot : parent[q] = p}
Least(S) == CHOOSE x \in S : \A y \in S : x <= y

\* wakeup(&proc[q]) on the table st: only q sleeps on its own slot, the other
\* slots are visited without effect.
wakeup(st, q) == [st EXCEPT ![q] = IF @ = "SLEEPING" /\ chan[q] = q THEN "RUNNABLE" ELSE @]

(***************************************************************************)
(* The scheduler, and giving up the CPU.                                    *)
(***************************************************************************)

\* scheduler() finds p RUNNABLE and switches to it with p->lock held.
scheduler(c, p) ==
  /\ stack[c] = None /\ cproc[c] = None
  /\ Free(p)
  /\ state[p] = "RUNNABLE"
  /\ state' = [state EXCEPT ![p] = "RUNNING"]
  /\ lock' = [lock EXCEPT ![p] = c]
  /\ cproc' = [cproc EXCEPT ![c] = p]
  /\ stack' = [stack EXCEPT ![c] = p]
  /\ UNCHANGED <<pid, parent, killed, chan, kthread, wait_lock, thrVars, nextpid>>

\* The rest of the loop body, once p has switched back.
scheduler_back(c) ==
  /\ stack[c] = None /\ cproc[c] # None
  /\ cproc' = [cproc EXCEPT ![c] = None]
  /\ lock' = [lock EXCEPT ![cproc[c]] = None]
  /\ UNCHANGED <<tblVars, wait_lock, stack, thrVars, nextpid>>

\* sched(): swtch() to this CPU's scheduler, keeping p->lock.
sched(c, p) ==
  /\ At(c, p, "sched")
  /\ stack' = [stack EXCEPT ![c] = None]
  /\ Goto(p, "resume")
  /\ UNCHANGED <<tblVars, lockVars, cproc, resume, np, nextpid>>

\* Back from swtch(): yield(), sleep(), forkret() and kthread_entry() all
\* release p->lock; sleep() clears p->chan first.
Resume(c, p) ==
  /\ At(c, p, "resume")
  /\ chan' = [chan EXCEPT ![p] = None]
  /\ lock' = [lock EXCEPT ![p] = None]
  /\ Goto(p, resume[p])
  /\ UNCHANGED <<state, pid, parent, killed, kthread, wait_lock, cpuVars, resume, np, nextpid>>

\* yield() on a timer interrupt, from user space or from the kernel.
yield(c, p) ==
  /\ Runs(c, p)
  /\ pc[p] \in Preemptible
  /\ Free(p)
  /\ lock' = [lock EXCEPT ![p] = c]
  /\ state' = [state EXCEPT ![p] = "RUNNABLE"]
  /\ resume' = [resume EXCEPT ![p] = IF pc[p] = "user" THEN "return" ELSE pc[p]]
  /\ Goto(p, "sched")
  /\ UNCHANGED <<pid, parent, killed, chan, kthread, wait_lock, cpuVars, np, nextpid>>

\* The end of usertrap(): a killed process exits, another one goes on in user space.
usertrap_return(c, p) ==
  /\ At(c, p, "return")
  /\ Free(p)
  /\ Goto(p, IF killed[p] THEN "exit" ELSE "user")
  /\ UNCHANGED <<tblVars, lockVars, cpuVars, resume, np, nextpid>>

\* The start of usertrap() for a system call: a killed process exits at once.
Syscall(c, p) == At(c, p, "user") /\ Free(p) /\ ~killed[p]

usertrap_killed(c, p) ==
  /\ At(c, p, "user")
  /\ Free(p)
  /\ killed[p]
  /\ Goto(p, "exit")
  /\ UNCHANGED <<tblVars, lockVars, cpuVars, resume, np, nextpid>>

(***************************************************************************)
(* fork().                                                                  *)
(***************************************************************************)

\* freeproc(q) applied to the table.
freeproc(q) ==
  /\ state' = [state EXCEPT ![q] = "UNUSED"]
  /\ pid' = [pid EXCEPT ![q] = 0]
  /\ parent' = [parent EXCEPT ![q] = None]
  /\ killed' = [killed EXCEPT ![q] = FALSE]
  /\ chan' = [chan EXCEPT ![q] = None]
  /\ kthread' = [kthread EXCEPT ![q] = FALSE]

\* allocproc() and kfork() up to release(&np->lock).  Slots are taken and
\* given back while the table is scanned, so any unused slot may be the one found.
kfork(c, p) ==
  /\ Syscall(c, p)
  /\ nextpid < MaxPid
  /\ \E q \in Slot :
       /\ state[q] = "UNUSED"
       /\ Free(q)
       /\ state' = [state EXCEPT ![q] = "USED"]
       /\ pid' = [pid EXCEPT ![q] = nextpid]
       /\ np' = [np EXCEPT ![p] = q]
       /\ resume' = [resume EXCEPT ![q] = "return"]
       /\ pc' = [pc EXCEPT ![p] = "fork_parent", ![q] = "resume"]
  /\ nextpid' = nextpid + 1
  /\ UNCHANGED <<parent, killed, chan, kthread, lockVars, cpuVars>>

\* allocproc() or uvmcopy() runs out of memory: the slot is freed again.
kfork_nomem(c, p) ==
  /\ Syscall(c, p)
  /\ nextpid < MaxPid
  /\ \E q \in Slot : state[q] = "UNUSED" /\ Free(q) /\ freeproc(q)
  /\ nextpid' = nextpid + 1
  /\ Goto(p, "return")
  /\ UNCHANGED <<lockVars, cpuVars, resume, np>>

\* No unused slot.
kfork_full(c, p) ==
  /\ Syscall(c, p)
  /\ \A q \in Slot : state[q] # "UNUSED"
  /\ Goto(p, "return")
  /\ UNCHANGED <<tblVars, lockVars, cpuVars, resume, np, nextpid>>

\* np->parent = p, under wait_lock.
kfork_parent(c, p) ==
  /\ At(c, p, "fork_parent")
  /\ wait_lock = None
  /\ parent' = [parent EXCEPT ![np[p]] = p]
  /\ Goto(p, "fork_runnable")
  /\ UNCHANGED <<state, pid, killed, chan, kthread, lockVars, cpuVars, resume, np, nextpid>>

\* np->state = RUNNABLE, under np->lock.
kfork_runnable(c, p) ==
  /\ At(c, p, "fork_runnable")
  /\ Free(np[p])
  /\ state' = [state EXCEPT ![np[p]] = "RUNNABLE"]
  /\ np' = [np EXCEPT ![p] = None]
  /\ Goto(p, "return")
  /\ UNCHANGED <<pid, parent, killed, chan, kthread, lockVars, cpuVars, resume, nextpid>>

(***************************************************************************)
(* wait() and sleep().                                                      *)
(***************************************************************************)

\* The system call starts; the loop comes back here from sleep().
kwait(c, p) ==
  /\ Syscall(c, p)
  /\ Goto(p, "wait")
  /\ UNCHANGED <<tblVars, lockVars, cpuVars, resume, np, nextpid>>

kwait_lock(c, p) ==
  /\ At(c, p, "wait")
  /\ wait_lock = None
  /\ wait_lock' = c
  /\ Goto(p, "scan")
  /\ UNCHANGED <<tblVars, lock, cpuVars, resume, np, nextpid>>

\* The exited children the scan of the table finds.
Zombies(p) == {q \in Children(p) : state[q] = "ZOMBIE"}

\* pp->lock keeps the parent off a child that is still on its way to swtch().
MayReap_NoLock(q) == TRUE
MayReap(q) == Free(q)

\* The scan finds an exited child: the first one in the table.
kwait_reap(c, p) ==
  /\ At(c, p, "scan")
  /\ Zombies(p) # {}
  /\ LET q == Least(Zombies(p)) IN MayReap(q) /\ freeproc(q)
  /\ wait_lock' = None
  /\ Goto(p, "return")
  /\ UNCHANGED <<lock, cpuVars, resume, np, nextpid>>

\* The caller's address for the status is bad: the child stays a zombie.
\* init passes no address.
kwait_badaddr(c, p) ==
  /\ At(c, p, "scan")
  /\ p # initproc
  /\ Zombies(p) # {}
  /\ Free(Least(Zombies(p)))
  /\ wait_lock' = None
  /\ Goto(p, "return")
  /\ UNCHANGED <<tblVars, lock, cpuVars, resume, np, nextpid>>

\* No children, or killed: give up.
kwait_giveup(c, p) ==
  /\ At(c, p, "scan")
  /\ Zombies(p) = {}
  /\ Children(p) = {} \/ (Free(p) /\ killed[p])
  /\ wait_lock' = None
  /\ Goto(p, "return")
  /\ UNCHANGED <<tblVars, lock, cpuVars, resume, np, nextpid>>

\* Children, none of them exited, and not killed when killed(p) looked.
kwait_sleep(c, p) ==
  /\ At(c, p, "scan")
  /\ Zombies(p) = {} /\ Children(p) # {}
  /\ Free(p) /\ ~killed[p]
  /\ Goto(p, "sleep")
  /\ UNCHANGED <<tblVars, lockVars, cpuVars, resume, np, nextpid>>

\* sleep(): acquire(&p->lock), then release(lk).
SleepLocks(c, p) ==
  /\ Free(p)
  /\ lock' = [lock EXCEPT ![p] = c]
  /\ wait_lock' = None

sleep(c, p) ==
  /\ At(c, p, "sleep")
  /\ SleepLocks(c, p)
  /\ Goto(p, "sleep_sched")
  /\ UNCHANGED <<tblVars, cpuVars, resume, np, nextpid>>

sleep_sched(c, p) ==
  /\ At(c, p, "sleep_sched")
  /\ chan' = [chan EXCEPT ![p] = p]
  /\ state' = [state EXCEPT ![p] = "SLEEPING"]
  /\ resume' = [resume EXCEPT ![p] = "wait"]
  /\ Goto(p, "sched")
  /\ UNCHANGED <<pid, parent, killed, kthread, lockVars, cpuVars, np, nextpid>>

(***************************************************************************)
(* exit().                                                                  *)
(***************************************************************************)

\* The user calls exit(); init never does.
sys_exit(c, p) ==
  /\ Syscall(c, p)
  /\ p # initproc
  /\ Goto(p, "exit")
  /\ UNCHANGED <<tblVars, lockVars, cpuVars, resume, np, nextpid>>

\* panic("init exiting"), or the fault of iput(p->cwd) on a thread without a cwd.
ExitPanics(p) == pc[p] = "exit" /\ (p = initproc \/ kthread[p])

\* Files and cwd are closed; then acquire(&wait_lock).
kexit(c, p) ==
  /\ At(c, p, "exit")
  /\ ~ExitPanics(p)
  /\ wait_lock = None
  /\ wait_lock' = c
  /\ Goto(p, "reparent")
  /\ UNCHANGED <<tblVars, lock, cpuVars, resume, np, nextpid>>

\* reparent(): the next abandoned child goes to init, and init is woken.
reparent(c, p) ==
  /\ At(c, p, "reparent")
  /\ Children(p) # {}
  /\ Free(initproc)
  /\ parent' = [parent EXCEPT ![Least(Children(p))] = initproc]
  /\ state' = wakeup(state, initproc)
  /\ UNCHANGED <<pid, killed, chan, kthread, lockVars, cpuVars, thrVars, nextpid>>

\* wakeup(p->parent).
kexit_wakeup_NoReparent(c, p) ==
  /\ At(c, p, "reparent")
  /\ Free(parent[p])
  /\ state' = wakeup(state, parent[p])
  /\ Goto(p, "zombie")
  /\ UNCHANGED <<pid, parent, killed, chan, kthread, lockVars, cpuVars, resume, np, nextpid>>
kexit_wakeup_Unlock(c, p) ==
  /\ At(c, p, "reparent")
  /\ Children(p) = {}
  /\ Free(parent[p])
  /\ state' = wakeup(state, parent[p])
  /\ wait_lock' = None
  /\ Goto(p, "zombie")
  /\ UNCHANGED <<pid, parent, killed, chan, kthread, lock, cpuVars, resume, np, nextpid>>
kexit_wakeup(c, p) ==
  /\ At(c, p, "reparent")
  /\ Children(p) = {}
  /\ Free(parent[p])
  /\ state' = wakeup(state, parent[p])
  /\ Goto(p, "zombie")
  /\ UNCHANGED <<pid, parent, killed, chan, kthread, lockVars, cpuVars, resume, np, nextpid>>

\* acquire(&p->lock), ZOMBIE, release(&wait_lock); sched() follows.
kexit_zombie(c, p) ==
  /\ At(c, p, "zombie")
  /\ Free(p)
  /\ lock' = [lock EXCEPT ![p] = c]
  /\ state' = [state EXCEPT ![p] = "ZOMBIE"]
  /\ wait_lock' = None
  /\ resume' = [resume EXCEPT ![p] = "none"]
  /\ Goto(p, "sched")
  /\ UNCHANGED <<pid, parent, killed, chan, kthread, cpuVars, np, nextpid>>

(***************************************************************************)
(* kill().  Of a kernel thread only its place in the scheduling is modelled: *)
(* khugepaged, the only one there is, never returns from its function.      *)
(***************************************************************************)

\* kkill(n, SIGKILL) when fatal, else another signal, whose pending bit the
\* module Signals models; both wake the target from any sleep.
kkill(c, p, n, fatal) ==
  /\ Syscall(c, p)
  /\ \E q \in Slot : pid[q] = n
  /\ LET q == Least({r \in Slot : pid[r] = n})
     IN /\ Free(q)
        /\ killed' = [killed EXCEPT ![q] = @ \/ fatal]
        /\ state' = [state EXCEPT ![q] = IF @ = "SLEEPING" THEN "RUNNABLE" ELSE @]
  /\ Goto(p, "return")
  /\ UNCHANGED <<pid, parent, chan, kthread, lockVars, cpuVars, resume, np, nextpid>>

(***************************************************************************)
(* The specification.  main() has made init and the kernel threads.         *)
(***************************************************************************)

Made == {initproc} \cup KThreads

Init ==
  /\ state = [p \in Slot |-> IF p \in Made THEN "RUNNABLE" ELSE "UNUSED"]
  /\ pid = [p \in Slot |-> IF p = initproc THEN 1
                           ELSE IF p \in KThreads
                           THEN 1 + Cardinality({k \in KThreads : k <= p})
                           ELSE 0]
  /\ parent = [p \in Slot |-> None]
  /\ killed = [p \in Slot |-> FALSE]
  /\ chan = [p \in Slot |-> None]
  /\ kthread = [p \in Slot |-> p \in KThreads]
  /\ lock = [p \in Slot |-> None]
  /\ wait_lock = None
  /\ cproc = [c \in CPU |-> None]
  /\ stack = [c \in CPU |-> None]
  /\ pc = [p \in Slot |-> IF p \in Made THEN "resume" ELSE "none"]
  /\ resume = [p \in Slot |-> IF p = initproc THEN "return"
                              ELSE IF p \in KThreads THEN "kfunc" ELSE "none"]
  /\ np = [p \in Slot |-> None]
  /\ nextpid = FirstPid

\* Leaving a CPU and coming back to one.
SwitchStep(c, p) == sched(c, p) \/ Resume(c, p)

\* Steps the kernel takes by itself once a thread is inside it.
KernelStep(c, p) ==
  \/ usertrap_return(c, p)
  \/ kfork_parent(c, p) \/ kfork_runnable(c, p)
  \/ kwait_lock(c, p) \/ kwait_reap(c, p) \/ kwait_giveup(c, p) \/ kwait_sleep(c, p)
  \/ sleep(c, p) \/ sleep_sched(c, p)
  \/ kexit(c, p) \/ reparent(c, p) \/ kexit_wakeup(c, p) \/ kexit_zombie(c, p)

\* Choices of the user programs and of the machine.
UserStep(c, p) ==
  \/ usertrap_killed(c, p)
  \/ kfork(c, p) \/ kfork_nomem(c, p) \/ kfork_full(c, p)
  \/ kwait(c, p) \/ kwait_badaddr(c, p)
  \/ sys_exit(c, p)
  \/ \E n \in KillPids, fatal \in BOOLEAN : kkill(c, p, n, fatal)

Next ==
  \/ \E c \in CPU : scheduler_back(c)
  \/ \E c \in CPU, p \in Slot :
       \/ scheduler(c, p) \/ yield(c, p) \/ SwitchStep(c, p)
       \/ KernelStep(c, p) \/ UserStep(c, p)

Spec == Init /\ [][Next]_vars

(***************************************************************************)
(* Properties.                                                              *)
(***************************************************************************)

\* No two CPUs are ever on one kernel stack, and the stack a CPU is on belongs
\* to a process that is not free: scheduler() cannot restart, and kwait()
\* cannot recycle, a process that has not finished its swtch() away.
StackExclusive ==
  /\ \A c, d \in CPU : stack[c] = stack[d] /\ stack[c] # None => c = d
  /\ \A c \in CPU : stack[c] # None => state[stack[c]] # "UNUSED"

\* A process that has fallen asleep in kwait() has no exited child waiting for
\* it, once nobody holds wait_lock: no exit() is missed between the scan of the
\* table and sleep(), whatever spurious wakeups kill() adds.
NoMissedExit ==
  wait_lock = None =>
    \A p \in Slot : state[p] = "SLEEPING" /\ Free(p) => Zombies(p) = {}

\* A parent pointer never dangles: when nobody holds wait_lock, the parent of a
\* process is alive, so every exited process has somebody to reap it.
ParentAlive ==
  wait_lock = None =>
    \A p \in Slot :
      /\ parent[p] # None => state[parent[p]] \notin {"UNUSED", "ZOMBIE"}
      /\ state[p] = "ZOMBIE" => parent[p] # None

(***************************************************************************)
(* The invariant behind them.                                               *)
(***************************************************************************)

\* The types of the state.
TypeOK ==
  /\ state \in [Slot -> {"UNUSED", "USED", "SLEEPING", "RUNNABLE", "RUNNING", "ZOMBIE"}]
  /\ pid \in [Slot -> Nat] /\ killed \in [Slot -> BOOLEAN] /\ kthread \in [Slot -> BOOLEAN]
  /\ parent \in [Slot -> Slot \cup {None}] /\ chan \in [Slot -> Slot \cup {None}]
  /\ lock \in [Slot -> CPU \cup {None}] /\ wait_lock \in CPU \cup {None}
  /\ cproc \in [CPU -> Slot \cup {None}] /\ stack \in [CPU -> Slot \cup {None}]
  /\ pc \in [Slot -> Preemptible \cup {"none", "sched", "resume", "scan", "sleep",
                                       "sleep_sched", "reparent", "zombie"}]
  /\ resume \in [Slot -> Preemptible \cup {"none"}]
  /\ np \in [Slot -> Slot \cup {None}] /\ nextpid \in Nat

\* Where a thread holds its own lock, and where it holds wait_lock.
LockPc == {"sched", "resume", "sleep_sched"}
WaitPc == {"scan", "sleep", "reparent", "zombie"}

\* A process belongs to at most one CPU.  While it does, it is RUNNING, or its
\* lock is held across swtch() by that CPU, until the scheduler lets it go.
OnCpu(c, p) ==
  \/ stack[c] = p /\ pc[p] \notin LockPc /\ state[p] = "RUNNING"
  \/ stack[c] = p /\ pc[p] \in {"resume", "sleep_sched"} /\ state[p] = "RUNNING" /\ lock[p] = c
  \/ /\ pc[p] = (IF stack[c] = p THEN "sched" ELSE "resume")
     /\ state[p] \in {"RUNNABLE", "SLEEPING", "ZOMBIE"}
     /\ lock[p] = c

CpuInv ==
  /\ \A c \in CPU : stack[c] # None => stack[c] = cproc[c]
  /\ \A c, d \in CPU : cproc[c] = cproc[d] /\ cproc[c] # None => c = d
  /\ \A p \in Slot : lock[p] # None => cproc[lock[p]] = p /\ pc[p] \in LockPc
  /\ \A c \in CPU, p \in Slot : cproc[c] = p => OnCpu(c, p)
  /\ \A p \in Slot : pc[p] \notin {"resume", "none"} => \E c \in CPU : stack[c] = p
  /\ \A p \in Slot : state[p] \notin {"UNUSED", "ZOMBIE"} =>
       pc[p] # "none" /\ (pc[p] \in {"sched", "resume"} => resume[p] # "none")

\* A thread inside a wait_lock section is the one on the CPU that holds it.
WaitInv ==
  \A p \in Slot : pc[p] \in WaitPc => \E c \in CPU : stack[c] = p /\ wait_lock = c

\* Where a thread is, whether on a CPU or switched away.
Point(p) == IF pc[p] \in {"sched", "resume"} THEN resume[p] ELSE pc[p]

\* The half-made child of a kfork() is USED, belongs to that kfork() alone, and
\* has its parent before it can run.
ForkInv ==
  \A p \in Slot :
    /\ np[p] # None <=> Point(p) \in {"fork_parent", "fork_runnable"}
    /\ np[p] # None => /\ state[p] \in {"RUNNING", "RUNNABLE"}
                       /\ state[np[p]] = "USED"
                       /\ \A r \in Slot : np[r] = np[p] => r = p
    /\ Point(p) = "fork_runnable" => parent[np[p]] # None

\* A process that sleeps, or has decided to, has no exited child; and between
\* the wakeup of kexit() and the ZOMBIE it announces, the parent cannot get
\* back to sleep.
SleepInv ==
  /\ \A p \in Slot : state[p] = "SLEEPING" => chan[p] = p
  /\ \A p, q \in Slot :
       parent[q] = p /\ (state[p] = "SLEEPING" \/ pc[p] \in {"sleep", "sleep_sched"}) =>
         state[q] # "ZOMBIE"
  /\ \A q \in Slot : pc[q] = "zombie" /\ parent[q] # None =>
       state[parent[q]] # "SLEEPING" /\ pc[parent[q]] # "sleep_sched"

\* Parents are alive, init for ever, and whatever can exit has one.
FamilyInv ==
  /\ \A p \in Slot : parent[p] # None => state[parent[p]] \notin {"UNUSED", "ZOMBIE"}
  /\ \A p, q \in Slot : parent[q] = p => pc[p] # "zombie"
  /\ state[initproc] \notin {"UNUSED", "ZOMBIE"}
  /\ \A p \in Slot : pc[p] \in {"reparent", "zombie"} => p # initproc /\ ~kthread[p]
  /\ \A p \in Slot :
       \/ state[p] = "ZOMBIE"
       \/ state[p] \in {"RUNNABLE", "RUNNING", "SLEEPING"} /\ p # initproc /\ ~kthread[p]
       => parent[p] # None

ProcInv == TypeOK /\ CpuInv /\ WaitInv /\ ForkInv /\ SleepInv /\ FamilyInv
=============================================================================
