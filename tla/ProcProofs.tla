----------------------------- MODULE ProcProofs -----------------------------
(***************************************************************************)
(* The process table: for any number of harts, any size of the table, any   *)
(* kernel threads and any programs.                                         *)
(***************************************************************************)
EXTENDS Proc, WellFoundedInduction, TLAPS

\* The steps that move the thread p from one point to another, taking or
\* releasing wait_lock on the way, and change nothing else.
Move(c, p) ==
  /\ Runs(c, p)
  /\ pc[p] \in {"user", "return", "wait", "scan", "exit"}
  /\ \E l \in {"user", "return", "wait", "scan", "exit", "reparent"} :
       /\ Goto(p, l)
       /\ \/ l \notin {"scan", "reparent"} /\ pc[p] # "scan" /\ wait_lock' = wait_lock
          \/ l \notin {"scan", "reparent"} /\ pc[p] = "scan" /\ wait_lock' = None
          \/ l \in {"scan", "reparent"} /\ wait_lock = None /\ wait_lock' = c
       /\ l = "reparent" => p # initproc /\ ~kthread[p]
  /\ UNCHANGED <<state, pid, parent, killed, chan, kthread, lock, cproc, stack, resume, np,
                 nextpid>>

\* What CPU c does next, with the process p.
StepOf(c, p) ==
  \/ Move(c, p)
  \/ scheduler_back(c) \/ scheduler(c, p) \/ yield(c, p) \/ sched(c, p) \/ Resume(c, p)
  \/ kfork(c, p) \/ kfork_nomem(c, p) \/ kfork_parent(c, p) \/ kfork_runnable(c, p)
  \/ kwait_reap(c, p) \/ kwait_sleep(c, p) \/ sleep(c, p) \/ sleep_sched(c, p)
  \/ reparent(c, p) \/ kexit_wakeup(c, p) \/ kexit_zombie(c, p)
  \/ \E n \in KillPids, fatal \in BOOLEAN : kkill(c, p, n, fatal)

(***************************************************************************)
(* Facts.                                                                   *)
(***************************************************************************)

\* The first of a non-empty set of numbers is one of them.
LEMMA LeastIn ==
  ASSUME NEW S, S \subseteq Nat, S # {}
  PROVE  Least(S) \in S
<1>1. PICK x \in S : \A y \in S : ~(<<y, x>> \in OpToRel(<, Nat))
  BY NatLessThanWellFounded, WFMin, Zenon
<1>2. \A y \in S : x <= y
  <2>1. ASSUME NEW y \in S PROVE ~(y < x)
    BY <1>1, <2>1, Zenon DEF OpToRel
  <2> QED BY <2>1
<1> QED BY <1>2, Zenon DEF Least

\* The scan of kwait() stops at a child that has exited.
LEMMA LeastZombie ==
  ASSUME NEW p \in Slot, Zombies(p) # {}
  PROVE  Least(Zombies(p)) \in Slot /\ state[Least(Zombies(p))] = "ZOMBIE"
<1>1. Zombies(p) \subseteq Nat
  BY ProcConstants DEF Zombies, Children, Slot
<1>2. Least(Zombies(p)) \in Zombies(p)
  BY <1>1, LeastIn
<1> QED BY <1>2 DEF Zombies, Children

\* reparent() goes through the children.
LEMMA LeastChild ==
  ASSUME NEW p \in Slot, Children(p) # {}
  PROVE  Least(Children(p)) \in Slot /\ parent[Least(Children(p))] = p
<1>1. Children(p) \subseteq Nat
  BY ProcConstants DEF Children, Slot
<1>2. Least(Children(p)) \in Children(p)
  BY <1>1, LeastIn
<1> QED BY <1>2 DEF Children

LEMMA InitSlot == initproc \in Slot /\ initproc # None
BY ProcConstants DEF initproc, Slot

\* reparent() only wakes.
LEMMA ReparentWakes ==
  ASSUME state \in [Slot -> {"UNUSED", "USED", "SLEEPING", "RUNNABLE", "RUNNING", "ZOMBIE"}],
         NEW c \in CPU, NEW p \in Slot, reparent(c, p)
  PROVE  \A x \in Slot : \/ state'[x] = state[x]
                         \/ state[x] = "SLEEPING" /\ state'[x] = "RUNNABLE"
BY Zenon DEF reparent, wakeup

\* The actions that Move sums up.
LEMMA MoveCases ==
  ASSUME NEW c \in CPU, NEW p \in Slot
  PROVE  /\ usertrap_return(c, p) => Move(c, p)
         /\ usertrap_killed(c, p) => Move(c, p)
         /\ kfork_full(c, p) => Move(c, p)
         /\ kwait(c, p) => Move(c, p)
         /\ kwait_lock(c, p) => Move(c, p)
         /\ kwait_badaddr(c, p) => Move(c, p)
         /\ kwait_giveup(c, p) => Move(c, p)
         /\ sys_exit(c, p) => Move(c, p)
         /\ kexit(c, p) => Move(c, p)
<1> USE DEF Move, Goto, At, tblVars, lockVars, cpuVars
<1>1. usertrap_return(c, p) => Move(c, p)
  BY Zenon DEF usertrap_return
<1>2. usertrap_killed(c, p) => Move(c, p)
  BY DEF usertrap_killed
<1>3. kfork_full(c, p) => Move(c, p)
  BY DEF kfork_full, Syscall
<1>4. kwait(c, p) => Move(c, p)
  BY DEF kwait, Syscall
<1>5. kwait_lock(c, p) => Move(c, p)
  BY DEF kwait_lock
<1>6. kwait_badaddr(c, p) => Move(c, p)
  BY DEF kwait_badaddr
<1>7. kwait_giveup(c, p) => Move(c, p)
  BY DEF kwait_giveup
<1>8. sys_exit(c, p) => Move(c, p)
  BY DEF sys_exit, Syscall
<1>9. kexit(c, p) => Move(c, p)
  BY DEF kexit, ExitPanics
<1> HIDE DEF Move, Goto, At, tblVars, lockVars, cpuVars
<1> QED BY <1>1, <1>2, <1>3, <1>4, <1>5, <1>6, <1>7, <1>8, <1>9

\* Every step of the system is one of StepOf.
LEMMA NextStep ==
  Next => \E c \in CPU, p \in Slot : StepOf(c, p)
<1>1. ASSUME NEW c \in CPU, scheduler_back(c) PROVE \E p \in Slot : StepOf(c, p)
  <2>1. initproc \in Slot
    BY ProcConstants DEF initproc, Slot
  <2> QED BY <1>1, <2>1 DEF StepOf
<1>2. ASSUME NEW c \in CPU, NEW p \in Slot,
             \/ scheduler(c, p) \/ yield(c, p) \/ SwitchStep(c, p)
             \/ KernelStep(c, p) \/ UserStep(c, p)
      PROVE  StepOf(c, p)
  BY <1>2, MoveCases, Zenon DEF StepOf, SwitchStep, KernelStep, UserStep
<1> QED BY <1>1, <1>2 DEF Next

(***************************************************************************)
(* Types.                                                                   *)
(***************************************************************************)

\* Every step preserves the types.
LEMMA TypeOKStep ==
  ASSUME TypeOK, ForkInv, NEW c \in CPU, NEW p \in Slot, StepOf(c, p)
  PROVE  TypeOK'
<1> USE ProcConstants DEF TypeOK, Goto, Runs, At, Free, lockVars, cpuVars, thrVars,
        tblVars, Preemptible
<1>1. CASE Move(c, p)
  BY <1>1 DEF Move
<1>2. CASE scheduler_back(c)
  BY <1>2, Zenon DEF scheduler_back
<1>3. CASE scheduler(c, p)
  BY <1>3, Zenon DEF scheduler
<1>4. CASE yield(c, p)
  BY <1>4, Zenon DEF yield, Preemptible
<1>5. CASE sched(c, p)
  BY <1>5, Zenon DEF sched
<1>6. CASE Resume(c, p)
  BY <1>6, Zenon DEF Resume, Preemptible
<1>7. CASE kfork(c, p)
  BY <1>7 DEF kfork, Syscall
<1>8. CASE kfork_nomem(c, p)
  BY <1>8 DEF kfork_nomem, Syscall, freeproc
<1>9. CASE kfork_parent(c, p)
  <2>1. parent' \in [Slot -> Slot \cup {None}]
    BY <1>9, Zenon DEF kfork_parent
  <2> QED BY <1>9, <2>1 DEF kfork_parent
<1>10. CASE kfork_runnable(c, p)
  <2>1. state' \in [Slot -> {"UNUSED", "USED", "SLEEPING", "RUNNABLE", "RUNNING", "ZOMBIE"}]
    BY <1>10, Zenon DEF kfork_runnable
  <2>2. np' \in [Slot -> Slot \cup {None}]
    BY <1>10, Zenon DEF kfork_runnable
  <2> QED BY <1>10, <2>1, <2>2 DEF kfork_runnable
<1>11. CASE kwait_reap(c, p)
  <2> DEFINE q == Least(Zombies(p))
  <2>1. q \in Slot /\ state[q] = "ZOMBIE"
    BY <1>11, LeastZombie, Zenon DEF kwait_reap
  <2>2. Free(q) /\ freeproc(q)
    BY <1>11, Zenon DEF kwait_reap, MayReap
  <2> HIDE DEF q
  <2> QED BY <1>11, <2>1, <2>2 DEF kwait_reap, freeproc
<1>12. CASE kwait_sleep(c, p)
  BY <1>12, Zenon DEF kwait_sleep
<1>13. CASE sleep(c, p)
  BY <1>13, Zenon DEF sleep, SleepLocks
<1>14. CASE sleep_sched(c, p)
  BY <1>14, Zenon DEF sleep_sched
<1>15. CASE reparent(c, p)
  <2>1. initproc \in Slot
    BY InitSlot, Zenon
  <2>2. parent' \in [Slot -> Slot \cup {None}]
    BY <1>15, <2>1, Zenon DEF reparent
  <2>3. state' \in [Slot -> {"UNUSED", "USED", "SLEEPING", "RUNNABLE", "RUNNING", "ZOMBIE"}]
    BY <1>15, <2>1, Zenon DEF reparent, wakeup
  <2> QED BY <1>15, <2>2, <2>3 DEF reparent
<1>16. CASE kexit_wakeup(c, p)
  <2>1. state' \in [Slot -> {"UNUSED", "USED", "SLEEPING", "RUNNABLE", "RUNNING", "ZOMBIE"}]
    BY <1>16, Zenon DEF kexit_wakeup, wakeup
  <2> QED BY <1>16, <2>1 DEF kexit_wakeup
<1>17. CASE kexit_zombie(c, p)
  BY <1>17, Zenon DEF kexit_zombie
<1>18. ASSUME NEW n \in KillPids, NEW fatal \in BOOLEAN, kkill(c, p, n, fatal)
      PROVE  TypeOK'
  <2>1. state' \in [Slot -> {"UNUSED", "USED", "SLEEPING", "RUNNABLE", "RUNNING", "ZOMBIE"}]
    BY <1>18, Zenon DEF kkill
  <2>2. killed' \in [Slot -> BOOLEAN]
    BY <1>18, Zenon DEF kkill
  <2> QED BY <1>18, <2>1, <2>2 DEF kkill, Syscall
<1> HIDE ProcConstants DEF TypeOK, Goto, Runs, At, Free, lockVars, cpuVars, thrVars,
        tblVars, Preemptible
<1> QED
  BY <1>1, <1>2, <1>3, <1>4, <1>5, <1>6, <1>7, <1>8, <1>9, <1>10, <1>11, <1>12, <1>13,
     <1>14, <1>15, <1>16, <1>17, <1>18, Zenon DEF StepOf

(***************************************************************************)
(* One CPU per process.                                                     *)
(***************************************************************************)

\* scheduler() takes a process only when it is RUNNABLE and its lock is free,
\* which no process on a CPU is; wakeup(), kill(), fork() and wait() change the
\* state only of processes whose lock they find free, and none that is RUNNING.
LEMMA CpuInvStep ==
  ASSUME TypeOK, CpuInv, ForkInv, NEW c \in CPU, NEW p \in Slot, StepOf(c, p)
  PROVE  CpuInv'
<1> USE ProcConstants DEF TypeOK, CpuInv, OnCpu, LockPc, Goto, Runs, At, Free, lockVars,
        cpuVars, thrVars, tblVars
<1>1. CASE Move(c, p)
  BY <1>1 DEF Move
<1>2. CASE scheduler_back(c)
  BY <1>2 DEF scheduler_back
<1>3. CASE scheduler(c, p)
  BY <1>3 DEF scheduler
<1>4. CASE yield(c, p)
  BY <1>4 DEF yield, Preemptible
<1>5. CASE sched(c, p)
  BY <1>5 DEF sched
<1>6. CASE Resume(c, p)
  BY <1>6 DEF Resume, Preemptible
<1>7. CASE kfork(c, p)
  BY <1>7 DEF kfork, Syscall
<1>8. CASE kfork_nomem(c, p)
  BY <1>8 DEF kfork_nomem, Syscall, freeproc
<1>9. CASE kfork_parent(c, p)
  BY <1>9 DEF kfork_parent
<1>10. CASE kfork_runnable(c, p)
  <2>1. np[p] \in Slot /\ state[np[p]] = "USED"
    BY <1>10 DEF kfork_runnable, ForkInv, Point
  <2> QED BY <1>10, <2>1 DEF kfork_runnable
<1>11. CASE kwait_reap(c, p)
  <2> DEFINE q == Least(Zombies(p))
  <2>1. q \in Slot /\ state[q] = "ZOMBIE"
    BY <1>11, LeastZombie, Zenon DEF kwait_reap
  <2>2. Free(q) /\ freeproc(q)
    BY <1>11, Zenon DEF kwait_reap, MayReap
  <2> HIDE DEF q
  <2> QED BY <1>11, <2>1, <2>2 DEF kwait_reap, freeproc
<1>12. CASE kwait_sleep(c, p)
  BY <1>12 DEF kwait_sleep
<1>13. CASE sleep(c, p)
  BY <1>13 DEF sleep, SleepLocks
<1>14. CASE sleep_sched(c, p)
  BY <1>14 DEF sleep_sched
<1>15. CASE reparent(c, p)
  BY <1>15 DEF reparent, wakeup
<1>16. CASE kexit_wakeup(c, p)
  BY <1>16 DEF kexit_wakeup, wakeup
<1>17. CASE kexit_zombie(c, p)
  BY <1>17 DEF kexit_zombie
<1>18. ASSUME NEW n \in KillPids, NEW fatal \in BOOLEAN, kkill(c, p, n, fatal)
      PROVE  CpuInv'
  BY <1>18 DEF kkill, Syscall
<1> HIDE ProcConstants DEF TypeOK, CpuInv, OnCpu, LockPc, Goto, Runs, At, Free,
        lockVars, cpuVars, thrVars, tblVars
<1> QED
  BY <1>1, <1>2, <1>3, <1>4, <1>5, <1>6, <1>7, <1>8, <1>9, <1>10, <1>11, <1>12, <1>13,
     <1>14, <1>15, <1>16, <1>17, <1>18, Zenon DEF StepOf

\* What the other parts of the invariant need to know of the CPUs: a thread
\* that is on one and has not given up its lock is RUNNING, and a stack has one.
CpuFact ==
  /\ \A q \in Slot : pc[q] \notin {"resume", "none", "sched"} => state[q] = "RUNNING"
  /\ \A q \in Slot : pc[q] = "sched" => state[q] \in {"RUNNABLE", "SLEEPING", "ZOMBIE"}
  /\ \A q \in Slot : pc[q] = "sleep_sched" => lock[q] # None
  /\ \A d \in CPU, q \in Slot : stack[d] = q /\ pc[q] = "resume" => state[q] = "RUNNING"
  /\ \A d, e \in CPU : stack[d] = stack[e] /\ stack[d] # None => d = e

\* They follow from CpuInv.
LEMMA CpuFacts ==
  ASSUME TypeOK, CpuInv
  PROVE  CpuFact
BY ProcConstants DEF TypeOK, CpuInv, OnCpu, LockPc, CpuFact

(***************************************************************************)
(* wait_lock.                                                               *)
(***************************************************************************)

\* A thread enters a wait_lock section only when the lock is free, and is not
\* preempted inside it.
LEMMA WaitInvStep ==
  ASSUME TypeOK, CpuInv, WaitInv, NEW c \in CPU, NEW p \in Slot, StepOf(c, p)
  PROVE  WaitInv'
<1>a. /\ pc \in [Slot -> Preemptible \cup {"none", "sched", "resume", "scan", "sleep",
                                       "sleep_sched", "reparent", "zombie"}]
      /\ stack \in [CPU -> Slot \cup {None}]
      /\ resume \in [Slot -> Preemptible \cup {"none"}]
  BY DEF TypeOK
<1>b. CpuFact
  BY CpuFacts, Zenon
<1> USE ProcConstants, <1>a, <1>b DEF WaitInv, WaitPc, CpuFact, Goto, Runs, At, Free,
        lockVars, cpuVars, thrVars, tblVars
<1>1. CASE Move(c, p)
  BY <1>1 DEF Move
<1>2. CASE scheduler_back(c)
  BY <1>2 DEF scheduler_back
<1>3. CASE scheduler(c, p)
  BY <1>3 DEF scheduler
<1>4. CASE yield(c, p)
  BY <1>4 DEF yield, Preemptible
<1>5. CASE sched(c, p)
  BY <1>5 DEF sched
<1>6. CASE Resume(c, p)
  BY <1>6 DEF Resume, Preemptible
<1>7. CASE kfork(c, p)
  BY <1>7 DEF kfork, Syscall
<1>8. CASE kfork_nomem(c, p)
  BY <1>8 DEF kfork_nomem, Syscall, freeproc
<1>9. CASE kfork_parent(c, p)
  BY <1>9 DEF kfork_parent
<1>10. CASE kfork_runnable(c, p)
  BY <1>10 DEF kfork_runnable
<1>11. CASE kwait_reap(c, p)
  BY <1>11 DEF kwait_reap
<1>12. CASE kwait_sleep(c, p)
  BY <1>12 DEF kwait_sleep
<1>13. CASE sleep(c, p)
  BY <1>13 DEF sleep, SleepLocks
<1>14. CASE sleep_sched(c, p)
  BY <1>14 DEF sleep_sched
<1>15. CASE reparent(c, p)
  BY <1>15 DEF reparent, wakeup
<1>16. CASE kexit_wakeup(c, p)
  BY <1>16 DEF kexit_wakeup, wakeup
<1>17. CASE kexit_zombie(c, p)
  BY <1>17 DEF kexit_zombie
<1>18. ASSUME NEW n \in KillPids, NEW fatal \in BOOLEAN, kkill(c, p, n, fatal)
      PROVE  WaitInv'
  BY <1>18 DEF kkill, Syscall
<1> HIDE ProcConstants, <1>a, <1>b DEF WaitInv, WaitPc, CpuFact, Goto, Runs, At, Free,
        lockVars, cpuVars, thrVars, tblVars
<1> QED
  BY <1>1, <1>2, <1>3, <1>4, <1>5, <1>6, <1>7, <1>8, <1>9, <1>10, <1>11, <1>12, <1>13,
     <1>14, <1>15, <1>16, <1>17, <1>18, Zenon DEF StepOf

(***************************************************************************)
(* fork().                                                                  *)
(***************************************************************************)

\* A USED slot changes only at the hands of the kfork() that took it, and keeps
\* its parent, whatever yield() comes in between.
LEMMA ForkInvStep ==
  ASSUME TypeOK, CpuInv, ForkInv, NEW c \in CPU, NEW p \in Slot, StepOf(c, p)
  PROVE  ForkInv'
<1>a. /\ state \in [Slot -> {"UNUSED", "USED", "SLEEPING", "RUNNABLE", "RUNNING", "ZOMBIE"}]
      /\ parent \in [Slot -> Slot \cup {None}]
      /\ pc \in [Slot -> Preemptible \cup {"none", "sched", "resume", "scan", "sleep",
                                       "sleep_sched", "reparent", "zombie"}]
      /\ resume \in [Slot -> Preemptible \cup {"none"}]
      /\ np \in [Slot -> Slot \cup {None}]
      /\ stack \in [CPU -> Slot \cup {None}]
  BY Zenon DEF TypeOK
<1>b. CpuFact
  BY CpuFacts
<1> USE ProcConstants, <1>a, <1>b DEF ForkInv, Point, CpuFact, Goto, Runs, At, Free,
        lockVars, cpuVars, thrVars, tblVars
<1>1. CASE Move(c, p)
  BY <1>1 DEF Move
<1>2. CASE scheduler_back(c)
  BY <1>2 DEF scheduler_back
<1>3. CASE scheduler(c, p)
  BY <1>3 DEF scheduler
<1>4. CASE yield(c, p)
  BY <1>4 DEF yield, Preemptible
<1>5. CASE sched(c, p)
  BY <1>5 DEF sched
<1>6. CASE Resume(c, p)
  BY <1>6 DEF Resume, Preemptible
<1>7. CASE kfork(c, p)
  <2>1. PICK q \in Slot :
          /\ state[q] = "UNUSED"
          /\ state' = [state EXCEPT ![q] = "USED"]
          /\ np' = [np EXCEPT ![p] = q]
          /\ resume' = [resume EXCEPT ![q] = "return"]
          /\ pc' = [pc EXCEPT ![p] = "fork_parent", ![q] = "resume"]
    BY <1>7, Zenon DEF kfork
  <2>2. pc[p] = "user" /\ np[p] = None /\ p # q /\ UNCHANGED parent
    BY <1>7, <2>1, Zenon DEF kfork, Syscall
  <2>3. np[q] = None
    BY <2>1, Zenon
  <2> QED BY <2>1, <2>2, <2>3
<1>8. CASE kfork_nomem(c, p)
  BY <1>8 DEF kfork_nomem, Syscall, freeproc
<1>9. CASE kfork_parent(c, p)
  BY <1>9 DEF kfork_parent
<1>10. CASE kfork_runnable(c, p)
  BY <1>10 DEF kfork_runnable
<1>11. CASE kwait_reap(c, p)
  <2> DEFINE q == Least(Zombies(p))
  <2>1. q \in Slot /\ state[q] = "ZOMBIE"
    BY <1>11, LeastZombie, Zenon DEF kwait_reap
  <2>2. Free(q) /\ freeproc(q)
    BY <1>11, Zenon DEF kwait_reap, MayReap
  <2> HIDE DEF q
  <2> QED BY <1>11, <2>1, <2>2 DEF kwait_reap, freeproc
<1>12. CASE kwait_sleep(c, p)
  BY <1>12 DEF kwait_sleep
<1>13. CASE sleep(c, p)
  BY <1>13 DEF sleep, SleepLocks
<1>14. CASE sleep_sched(c, p)
  BY <1>14 DEF sleep_sched
<1>15. CASE reparent(c, p)
  <2>1. initproc \in Slot /\ initproc # None
    BY InitSlot, Zenon
  <2>2. \A x \in Slot : state[x] # "SLEEPING" => state'[x] = state[x]
    BY <1>15, ReparentWakes, Zenon
  <2>3. \A x \in Slot : parent[x] # None => parent'[x] # None
    BY <1>15, <2>1 DEF reparent
  <2> QED BY <1>15, <2>2, <2>3 DEF reparent
<1>16. CASE kexit_wakeup(c, p)
  BY <1>16 DEF kexit_wakeup, wakeup
<1>17. CASE kexit_zombie(c, p)
  BY <1>17 DEF kexit_zombie
<1>18. ASSUME NEW n \in KillPids, NEW fatal \in BOOLEAN, kkill(c, p, n, fatal)
      PROVE  ForkInv'
  BY <1>18 DEF kkill, Syscall
<1> HIDE ProcConstants, <1>a, <1>b DEF ForkInv, Point, CpuFact, Goto, Runs, At, Free,
        lockVars, cpuVars, thrVars, tblVars
<1> QED
  BY <1>1, <1>2, <1>3, <1>4, <1>5, <1>6, <1>7, <1>8, <1>9, <1>10, <1>11, <1>12, <1>13,
     <1>14, <1>15, <1>16, <1>17, <1>18, Zenon DEF StepOf

(***************************************************************************)
(* Calm steps.                                                              *)
(***************************************************************************)

\* A step that leaves the process tree alone, puts nobody to sleep and brings
\* nobody nearer to a sleep or an exit.
Calm ==
  /\ UNCHANGED <<parent, kthread>>
  /\ \A x \in Slot :
       /\ chan'[x] = chan[x] \/ state'[x] # "SLEEPING"
       /\ \/ state'[x] = state[x]
          \/ /\ state[x] \in {"RUNNABLE", "RUNNING", "SLEEPING"}
             /\ state'[x] \in {"RUNNABLE", "RUNNING"}
       /\ pc'[x] = pc[x] \/ pc'[x] \notin {"sleep", "sleep_sched", "reparent", "zombie"}

\* The same, except that a process may be put to sleep.
TreeKept ==
  /\ UNCHANGED <<parent, kthread>>
  /\ \A x \in Slot :
       /\ \/ state'[x] = state[x]
          \/ {state[x], state'[x]} \subseteq {"RUNNABLE", "RUNNING", "SLEEPING"}
       /\ pc'[x] = pc[x] \/ pc'[x] \notin {"reparent", "zombie"}

\* Switching between threads is calm, and so is kkill().
LEMMA CalmStep ==
  ASSUME TypeOK, CpuInv, NEW c \in CPU, NEW p \in Slot,
         \/ scheduler_back(c) \/ scheduler(c, p) \/ yield(c, p) \/ sched(c, p) \/ Resume(c, p)
         \/ \E n \in KillPids, fatal \in BOOLEAN : kkill(c, p, n, fatal)
  PROVE  Calm
<1>a. /\ state \in [Slot -> {"UNUSED", "USED", "SLEEPING", "RUNNABLE", "RUNNING", "ZOMBIE"}]
      /\ chan \in [Slot -> Slot \cup {None}]
      /\ pc \in [Slot -> Preemptible \cup {"none", "sched", "resume", "scan", "sleep",
                                       "sleep_sched", "reparent", "zombie"}]
      /\ resume \in [Slot -> Preemptible \cup {"none"}]
  BY Zenon DEF TypeOK
<1>b. CpuFact
  BY CpuFacts, Zenon
<1>1. CASE scheduler_back(c)
  BY <1>1, Zenon DEF scheduler_back, Calm, tblVars, thrVars
<1>2. CASE scheduler(c, p)
  BY <1>a, <1>2 DEF scheduler, Calm, thrVars
<1>3. CASE yield(c, p)
  <2>1. state[p] = "RUNNING"
    BY <1>b, <1>3 DEF yield, Runs, CpuFact, Preemptible
  <2>2. \A x \in Slot : pc'[x] = pc[x] \/ pc'[x] = "sched"
    BY <1>a, <1>3, Zenon DEF yield, Goto
  <2>3. \A x \in Slot : state'[x] = state[x] \/ (x = p /\ state'[x] = "RUNNABLE")
    BY <1>a, <1>3, Zenon DEF yield
  <2>4. UNCHANGED <<parent, kthread, chan>>
    BY <1>3, Zenon DEF yield
  <2> QED BY <2>1, <2>2, <2>3, <2>4, Zenon DEF Calm
<1>4. CASE sched(c, p)
  BY <1>a, <1>4 DEF sched, Goto, Calm, tblVars
<1>5. CASE Resume(c, p)
  <2>1. state[p] = "RUNNING" /\ state' = state /\ UNCHANGED <<parent, kthread>>
    BY <1>b, <1>5, Zenon DEF Resume, At, Runs, CpuFact
  <2>2. resume[p] \notin {"sleep", "sleep_sched", "reparent", "zombie"}
    <3>1. resume[p] \in Preemptible \cup {"none"}
      BY <1>a, Zenon
    <3> QED BY <3>1 DEF Preemptible
  <2> QED BY <1>a, <1>5, <2>1, <2>2 DEF Resume, Goto, Calm
<1>6. ASSUME NEW n \in KillPids, NEW fatal \in BOOLEAN, kkill(c, p, n, fatal)
      PROVE  Calm
  <2>1. PICK q : state' = [state EXCEPT ![q] = IF @ = "SLEEPING" THEN "RUNNABLE" ELSE @]
    BY <1>6, Zenon DEF kkill
  <2>2. \A x \in Slot : state'[x] = state[x] \/ (state[x] = "SLEEPING" /\ state'[x] = "RUNNABLE")
    BY <1>a, <2>1, Zenon
  <2>3. \A x \in Slot : pc'[x] = pc[x] \/ pc'[x] = "return"
    BY <1>a, <1>6, Zenon DEF kkill, Goto
  <2>4. UNCHANGED <<parent, kthread, chan>>
    BY <1>6, Zenon DEF kkill
  <2> QED BY <2>2, <2>3, <2>4, Zenon DEF Calm
<1> QED BY <1>1, <1>2, <1>3, <1>4, <1>5, <1>6, Zenon

\* sleep() leaves the tree alone.
LEMMA TreeStep ==
  ASSUME TypeOK, CpuInv, NEW c \in CPU, NEW p \in Slot,
         Calm \/ kwait_sleep(c, p) \/ sleep(c, p) \/ sleep_sched(c, p)
  PROVE  TreeKept
<1>a. /\ state \in [Slot -> {"UNUSED", "USED", "SLEEPING", "RUNNABLE", "RUNNING", "ZOMBIE"}]
      /\ pc \in [Slot -> Preemptible \cup {"none", "sched", "resume", "scan", "sleep",
                                       "sleep_sched", "reparent", "zombie"}]
  BY Zenon DEF TypeOK
<1>1. CASE Calm
  BY <1>1, Zenon DEF Calm, TreeKept
<1>2. CASE kwait_sleep(c, p)
  BY <1>a, <1>2, Zenon DEF kwait_sleep, Goto, tblVars, TreeKept
<1>3. CASE sleep(c, p)
  BY <1>a, <1>3, Zenon DEF sleep, Goto, tblVars, TreeKept
<1>4. CASE sleep_sched(c, p)
  <2>1. state[p] = "RUNNING"
    BY <1>4, CpuFacts, Zenon DEF sleep_sched, At, Runs, CpuFact
  <2> QED BY <1>a, <1>4, <2>1, Zenon DEF sleep_sched, Goto, TreeKept
<1> QED BY <1>1, <1>2, <1>3, <1>4, Zenon

\* kfork() makes its child RUNNABLE.
LEMMA ForkedChild ==
  ASSUME TypeOK, ForkInv, NEW c \in CPU, NEW p \in Slot, kfork_runnable(c, p)
  PROVE  /\ np[p] \in Slot /\ state[np[p]] = "USED" /\ parent[np[p]] # None
         /\ state'[np[p]] = "RUNNABLE" /\ \A x \in Slot : x # np[p] => state'[x] = state[x]
         /\ \A x \in Slot : pc'[x] = pc[x] \/ pc'[x] = "return"
         /\ UNCHANGED <<parent, kthread, chan>>
<1>a. /\ state \in [Slot -> {"UNUSED", "USED", "SLEEPING", "RUNNABLE", "RUNNING", "ZOMBIE"}]
      /\ pc \in [Slot -> Preemptible \cup {"none", "sched", "resume", "scan", "sleep",
                                       "sleep_sched", "reparent", "zombie"}]
      /\ np \in [Slot -> Slot \cup {None}]
  BY Zenon DEF TypeOK
<1>1. pc[p] = "fork_runnable" /\ Point(p) = "fork_runnable"
  BY Zenon DEF kfork_runnable, At, Point
<1>2. np[p] # None /\ state[np[p]] = "USED" /\ parent[np[p]] # None
  BY <1>1, Zenon DEF ForkInv
<1>3. np[p] \in Slot
  BY <1>a, <1>2, Zenon
<1>4. \A x \in Slot : pc'[x] = pc[x] \/ pc'[x] = "return"
  BY <1>a, Zenon DEF kfork_runnable, Goto
<1> QED BY <1>a, <1>2, <1>3, <1>4, Zenon DEF kfork_runnable

(***************************************************************************)
(* sleep() and wakeup().                                                    *)
(***************************************************************************)

\* sleep() takes p->lock before it releases wait_lock, so the wakeup() of an
\* exiting child, which needs both, comes before the scan or after the sleep.
LEMMA SleepInvStep ==
  ASSUME TypeOK, CpuInv, WaitInv, ForkInv, SleepInv, NEW c \in CPU, NEW p \in Slot, StepOf(c, p)
  PROVE  SleepInv'
<1>a. /\ state \in [Slot -> {"UNUSED", "USED", "SLEEPING", "RUNNABLE", "RUNNING", "ZOMBIE"}]
      /\ parent \in [Slot -> Slot \cup {None}]
      /\ chan \in [Slot -> Slot \cup {None}]
      /\ pc \in [Slot -> Preemptible \cup {"none", "sched", "resume", "scan", "sleep",
                                       "sleep_sched", "reparent", "zombie"}]
      /\ resume \in [Slot -> Preemptible \cup {"none"}]
      /\ stack \in [CPU -> Slot \cup {None}]
  BY DEF TypeOK
<1>b. CpuFact
  BY CpuFacts, Zenon
<1> USE ProcConstants, <1>a, <1>b DEF SleepInv, WaitInv, WaitPc, CpuFact, Goto, Runs,
        At, Free, lockVars, cpuVars, thrVars, tblVars
<1>1. CASE Move(c, p)
  BY <1>1 DEF Move
<1>2. CASE Calm
  BY <1>2 DEF Calm
<1>7. CASE kfork(c, p)
  BY <1>7 DEF kfork, Syscall
<1>8. CASE kfork_nomem(c, p)
  BY <1>8 DEF kfork_nomem, Syscall, freeproc
<1>9. CASE kfork_parent(c, p)
  BY <1>9 DEF kfork_parent
<1>10. CASE kfork_runnable(c, p)
  <2> HIDE ProcConstants, <1>b DEF WaitInv, WaitPc, CpuFact, Goto, Runs, At, Free, lockVars,
          cpuVars, thrVars, tblVars
  <2> QED BY <1>10, ForkedChild
<1>11. CASE kwait_reap(c, p)
  <2> DEFINE q == Least(Zombies(p))
  <2>1. q \in Slot /\ state[q] = "ZOMBIE"
    BY <1>11, LeastZombie, Zenon DEF kwait_reap
  <2>2. Free(q) /\ freeproc(q)
    BY <1>11, Zenon DEF kwait_reap, MayReap
  <2> HIDE DEF q
  <2> QED BY <1>11, <2>1, <2>2 DEF kwait_reap, freeproc
<1>12. CASE kwait_sleep(c, p)
  BY <1>12 DEF kwait_sleep, Zombies, Children
<1>13. CASE sleep(c, p)
  BY <1>13 DEF sleep, SleepLocks
<1>14. CASE sleep_sched(c, p)
  BY <1>14 DEF sleep_sched
<1>15. CASE reparent(c, p)
  BY <1>15 DEF reparent, wakeup
<1>16. CASE kexit_wakeup(c, p)
  BY <1>16 DEF kexit_wakeup, wakeup
<1>17. CASE kexit_zombie(c, p)
  BY <1>17 DEF kexit_zombie
<1> HIDE ProcConstants, <1>a, <1>b DEF SleepInv, WaitInv, WaitPc, CpuFact, Goto, Runs,
        At, Free, lockVars, cpuVars, thrVars, tblVars
<1> QED
  BY <1>1, <1>2, <1>7, <1>8, <1>9, <1>10, <1>11, <1>12, <1>13, <1>14, <1>15, <1>16, <1>17,
     CalmStep, Zenon DEF StepOf

(***************************************************************************)
(* Parents and children.                                                    *)
(***************************************************************************)

\* A ZOMBIE has no children, so that nobody misses it when it is freed.
LEMMA FamilyWithout ==
  ASSUME FamilyInv, parent \in [Slot -> Slot \cup {None}], initproc \in Slot, NEW q \in Slot,
         state[q] = "ZOMBIE", state'[q] = "UNUSED", parent'[q] = None,
         \A x \in Slot : x # q => /\ state'[x] = state[x] /\ parent'[x] = parent[x]
                                  /\ kthread'[x] = kthread[x],
         \A x \in Slot : pc'[x] = pc[x] \/ pc'[x] = "return",
         pc[q] \notin {"reparent", "zombie"}
  PROVE  FamilyInv'
<1>1. ASSUME NEW x \in Slot, parent'[x] # None
      PROVE  /\ x # q /\ parent'[x] = parent[x] /\ parent[x] \in Slot /\ parent[x] # q
             /\ state[parent[x]] \notin {"UNUSED", "ZOMBIE"}
  <2>1. x # q /\ parent'[x] = parent[x] /\ parent[x] # None
    BY <1>1, Zenon
  <2>2. parent[x] \in Slot
    BY <2>1, Zenon
  <2>3. state[parent[x]] \notin {"UNUSED", "ZOMBIE"}
    BY <2>1, Zenon DEF FamilyInv
  <2> QED BY <2>1, <2>2, <2>3, Zenon
<1>2. \A x \in Slot : parent'[x] # None => state'[parent'[x]] \notin {"UNUSED", "ZOMBIE"}
  BY <1>1, Zenon
<1>3. ASSUME NEW x \in Slot, NEW y \in Slot, parent'[y] = x PROVE pc'[x] # "zombie"
  <2>1. parent[y] = x /\ pc[x] # "zombie"
    BY <1>3, ProcConstants, Zenon DEF FamilyInv
  <2> QED BY <2>1, Zenon
<1>4. state'[initproc] \notin {"UNUSED", "ZOMBIE"}
  BY Zenon DEF FamilyInv
<1>5. ASSUME NEW x \in Slot, pc'[x] \in {"reparent", "zombie"}
      PROVE  x # initproc /\ ~kthread'[x]
  <2>1. pc[x] \in {"reparent", "zombie"}
    BY <1>5, Zenon
  <2> QED BY <2>1, Zenon DEF FamilyInv
<1>6. ASSUME NEW x \in Slot,
             \/ state'[x] = "ZOMBIE"
             \/ state'[x] \in {"RUNNABLE", "RUNNING", "SLEEPING"} /\ x # initproc /\ ~kthread'[x]
      PROVE  parent'[x] # None
  <2>1. x # q
    BY <1>6, Zenon
  <2> QED BY <1>6, <2>1, Zenon DEF FamilyInv
<1> QED BY <1>2, <1>3, <1>4, <1>5, <1>6, Zenon DEF FamilyInv

\* kexit() hands its children to init before it becomes a ZOMBIE, and keeps
\* wait_lock from then on, so that none is added; init itself never exits.
LEMMA FamilyInvStep ==
  ASSUME TypeOK, CpuInv, WaitInv, ForkInv, FamilyInv, NEW c \in CPU, NEW p \in Slot, StepOf(c, p)
  PROVE  FamilyInv'
<1>a. /\ state \in [Slot -> {"UNUSED", "USED", "SLEEPING", "RUNNABLE", "RUNNING", "ZOMBIE"}]
      /\ parent \in [Slot -> Slot \cup {None}]
      /\ kthread \in [Slot -> BOOLEAN]
      /\ pc \in [Slot -> Preemptible \cup {"none", "sched", "resume", "scan", "sleep",
                                       "sleep_sched", "reparent", "zombie"}]
      /\ resume \in [Slot -> Preemptible \cup {"none"}]
      /\ stack \in [CPU -> Slot \cup {None}]
  BY Zenon DEF TypeOK
<1>b. CpuFact
  BY CpuFacts
<1> USE ProcConstants, <1>a, <1>b DEF FamilyInv, WaitInv, WaitPc, CpuFact, Goto, Runs,
        At, Free, lockVars, cpuVars, thrVars, tblVars
<1>1. CASE Move(c, p)
  BY <1>1 DEF Move
<1>2. CASE TreeKept
  <2>1. initproc \in Slot
    BY InitSlot, Zenon
  <2> QED BY <1>2, <2>1 DEF TreeKept
<1>7. CASE kfork(c, p)
  BY <1>7 DEF kfork, Syscall
<1>8. CASE kfork_nomem(c, p)
  BY <1>8 DEF kfork_nomem, Syscall, freeproc
<1>9. CASE kfork_parent(c, p)
  BY <1>9 DEF kfork_parent
<1>10. CASE kfork_runnable(c, p)
  <2>1. initproc \in Slot
    BY InitSlot, Zenon
  <2> QED BY <1>10, <2>1, ForkedChild
<1>11. CASE kwait_reap(c, p)
  <2> DEFINE q == Least(Zombies(p))
  <2>1. q \in Slot /\ state[q] = "ZOMBIE"
    BY <1>11, LeastZombie, Zenon DEF kwait_reap
  <2>2. Free(q) /\ freeproc(q)
    BY <1>11, Zenon DEF kwait_reap, MayReap
  <2> HIDE DEF q
  <2>3. /\ \A x \in Slot : x # q => /\ state'[x] = state[x] /\ parent'[x] = parent[x]
                                   /\ kthread'[x] = kthread[x]
        /\ state'[q] = "UNUSED" /\ parent'[q] = None
    BY <2>1, <2>2 DEF freeproc
  <2>4. \A x \in Slot : pc'[x] = pc[x] \/ pc'[x] = "return"
    <3>1. pc' = [pc EXCEPT ![p] = "return"]
      BY <1>11, Zenon DEF kwait_reap
    <3> HIDE <1>a, <1>b DEF FamilyInv, WaitInv, WaitPc, CpuFact, Goto, Runs, At, Free,
            lockVars, cpuVars, thrVars, tblVars
    <3> QED BY <3>1
  <2>5. pc[q] \notin {"reparent", "zombie"} /\ \A x \in Slot : parent[x] # q
    BY <2>1
  <2>6. initproc \in Slot
    BY InitSlot, Zenon
  <2> HIDE ProcConstants, <1>a, <1>b DEF FamilyInv, WaitInv, WaitPc, CpuFact, Goto, Runs,
          At, Free, lockVars, cpuVars, thrVars, tblVars
  <2> QED BY <1>a, <2>1, <2>3, <2>4, <2>5, <2>6, FamilyWithout, Zenon
<1>15. CASE reparent(c, p)
  <2> DEFINE q == Least(Children(p))
  <2>1. initproc \in Slot /\ initproc # None
    BY InitSlot, Zenon
  <2>2. q \in Slot /\ parent[q] = p
    BY <1>15, LeastChild, Zenon DEF reparent
  <2> HIDE DEF q
  <2>3. /\ parent' = [parent EXCEPT ![q] = initproc] /\ pc[p] = "reparent" /\ stack[c] = p
        /\ UNCHANGED <<pc, kthread>>
    BY <1>15, Zenon DEF reparent, q
  <2>4. \A x \in Slot : state'[x] = state[x] \/ (state[x] = "SLEEPING" /\ state'[x] = "RUNNABLE")
    BY <1>15, ReparentWakes, Zenon
  <2> QED BY <2>1, <2>2, <2>3, <2>4
<1>16. CASE kexit_wakeup(c, p)
  BY <1>16 DEF kexit_wakeup, wakeup, Children
<1>17. CASE kexit_zombie(c, p)
  BY <1>17 DEF kexit_zombie
<1> HIDE ProcConstants, <1>a, <1>b DEF FamilyInv, WaitInv, WaitPc, CpuFact, Goto, Runs,
        At, Free, lockVars, cpuVars, thrVars, tblVars
<1> QED
  BY <1>1, <1>2, <1>7, <1>8, <1>9, <1>10, <1>11, <1>15, <1>16, <1>17,
     CalmStep, TreeStep, Zenon DEF StepOf

(***************************************************************************)
(* The theorems.                                                            *)
(***************************************************************************)

FS == INSTANCE FiniteSetTheorems

\* The library's finite sets are the model's.
LEMMA SameFinite ==
  /\ \A S : FS!IsFiniteSet(S) <=> IsFiniteSet(S)
  /\ \A S : FS!Cardinality(S) = Cardinality(S)
BY DEF IsFiniteSet, FS!IsFiniteSet, Cardinality, FS!Cardinality

\* A part of a finite set has a size.
LEMMA SubsetSize ==
  ASSUME NEW S, IsFiniteSet(S), NEW T, T \subseteq S
  PROVE  Cardinality(T) \in Nat
BY SameFinite, FS!FS_Subset, FS!FS_CardinalityType, Zenon

\* After main() init and the kernel threads are RUNNABLE, and nothing else is.
LEMMA InitProcInv == Init => ProcInv
<1> SUFFICES ASSUME Init PROVE ProcInv
  OBVIOUS
<1>1. Made \subseteq Slot /\ initproc \in Made /\ initproc \in Slot
  BY ProcConstants DEF Made, initproc, Slot
<1>2. TypeOK
  <2>1. \A p \in Slot : Cardinality({k \in KThreads : k <= p}) \in Nat
    <3>1. ASSUME NEW p \in Slot PROVE Cardinality({k \in KThreads : k <= p}) \in Nat
      BY ProcConstants, SubsetSize, Zenon
    <3> QED BY <3>1, Zenon
  <2>2. pid \in [Slot -> Nat]
    <3>1. \A p \in Slot : 1 + Cardinality({k \in KThreads : k <= p}) \in Nat
      BY <2>1
    <3> HIDE DEF Slot
    <3> QED BY <3>1 DEF Init
  <2>3. nextpid \in Nat
    <3>1. Cardinality(KThreads) \in Nat
      BY ProcConstants, SubsetSize, Zenon
    <3> QED BY <3>1 DEF Init, FirstPid
  <2>4. kthread \in [Slot -> BOOLEAN] /\ killed \in [Slot -> BOOLEAN]
    BY DEF Init
  <2>5. /\ parent \in [Slot -> Slot \cup {None}] /\ chan \in [Slot -> Slot \cup {None}]
        /\ lock \in [Slot -> CPU \cup {None}] /\ wait_lock \in CPU \cup {None}
        /\ cproc \in [CPU -> Slot \cup {None}] /\ stack \in [CPU -> Slot \cup {None}]
        /\ np \in [Slot -> Slot \cup {None}]
    BY Zenon DEF Init
  <2>6. /\ state \in [Slot -> {"UNUSED", "USED", "SLEEPING", "RUNNABLE", "RUNNING", "ZOMBIE"}]
        /\ pc \in [Slot -> Preemptible \cup {"none", "sched", "resume", "scan", "sleep",
                                             "sleep_sched", "reparent", "zombie"}]
        /\ resume \in [Slot -> Preemptible \cup {"none"}]
    BY Zenon DEF Init, Preemptible
  <2> QED BY <2>2, <2>3, <2>4, <2>5, <2>6 DEF TypeOK
<1>3. CpuInv
  BY ProcConstants, <1>1, Zenon DEF Init, CpuInv, Made
<1>4. WaitInv
  BY Zenon DEF Init, WaitInv, WaitPc
<1>5. ForkInv
  BY Zenon DEF Init, ForkInv, Point
<1>6. SleepInv
  BY DEF Init, SleepInv
<1>7. FamilyInv
  BY <1>1, Zenon DEF Init, FamilyInv, Made
<1> QED BY <1>2, <1>3, <1>4, <1>5, <1>6, <1>7 DEF ProcInv

\* ProcInv holds in every behaviour of the process table.
THEOREM ProcInvariant == Spec => []ProcInv
<1>1. ProcInv /\ [Next]_vars => ProcInv'
  <2>1. ASSUME ProcInv, UNCHANGED vars PROVE ProcInv'
    <3>1. TypeOK' /\ WaitInv'
      BY <2>1, Zenon DEF vars, ProcInv, TypeOK, WaitInv
    <3>2. CpuInv'
      BY <2>1 DEF vars, ProcInv, CpuInv, OnCpu
    <3>3. ForkInv'
      BY <2>1, Zenon DEF vars, ProcInv, ForkInv, Point
    <3>4. SleepInv' /\ FamilyInv'
      BY <2>1, Zenon DEF vars, ProcInv, SleepInv, FamilyInv
    <3> QED BY <3>1, <3>2, <3>3, <3>4, Zenon DEF ProcInv
  <2>2. ASSUME ProcInv, NEW c \in CPU, NEW p \in Slot, StepOf(c, p) PROVE ProcInv'
    BY <2>2, TypeOKStep, CpuInvStep, WaitInvStep, ForkInvStep, SleepInvStep, FamilyInvStep
       DEF ProcInv
  <2> QED BY <2>1, <2>2, NextStep
<1> QED BY InitProcInv, <1>1, PTL DEF Spec

\* scheduler(), sched() and kwait() never put two CPUs on one kernel stack, and
\* never leave a CPU on the stack of a freed process.
THEOREM StacksExclusive == Spec => []StackExclusive
<1>1. ProcInv => StackExclusive
  BY ProcConstants DEF ProcInv, TypeOK, CpuInv, OnCpu, StackExclusive
<1> QED BY <1>1, ProcInvariant, PTL

\* sleep(), wakeup(), kexit() and kwait() never miss an exit.
THEOREM ExitsAreSeen == Spec => []NoMissedExit
<1>1. ProcInv => NoMissedExit
  BY Zenon DEF ProcInv, SleepInv, NoMissedExit, Zombies, Children
<1> QED BY <1>1, ProcInvariant, PTL

\* reparent() and kexit() never leave a process with a dead parent, or an exited
\* one with none.
THEOREM ParentsAlive == Spec => []ParentAlive
<1>1. ProcInv => ParentAlive
  BY DEF ProcInv, FamilyInv, ParentAlive
<1> QED BY <1>1, ProcInvariant, PTL
=============================================================================
