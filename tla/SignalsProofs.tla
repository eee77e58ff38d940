--------------------------- MODULE SignalsProofs ---------------------------
(***************************************************************************)
(* Handlers and the interrupted program: for any number of processes, harts *)
(* and signals, and any sequence of kill(), signal(), fork() and exec().    *)
(***************************************************************************)
EXTENDS Signals, TLAPS

\* What p does next; the disjuncts of Next.
StepOf(p) ==
  \/ KernelStep(p)
  \/ UserStep(p) \/ timer(p) \/ fault(p) \/ syscall_killed(p)
  \/ sys_sigreturn(p) \/ sys_other(p) \/ kexec(p)
  \/ \E q \in Proc : kfork(p, q)
  \/ \E s \in load.sigs \cup {SIGKILL} : sys_signal(p, s) \/ kkill(p, s)

(***************************************************************************)
(* Types.                                                                   *)
(***************************************************************************)

\* A cleared frame is a frame, and so is a frame with a register changed.
LEMMA FrameTypes ==
  /\ Zero \in Frame
  /\ \A f \in Frame, r \in Int : [f EXCEPT !.a0 = r] \in Frame
  /\ \A f \in Frame, h \in Hart : [f EXCEPT !.hart = h] \in Frame
  /\ \A f \in Frame, s \in Sig : [f EXCEPT !.code = s, !.a0 = s] \in Frame
<1> USE SignalsConstants DEF Frame, Main
<1>1. Zero \in Frame
  BY DEF Zero
<1>2. ASSUME NEW f \in Frame, NEW r \in Int PROVE [f EXCEPT !.a0 = r] \in Frame
  OBVIOUS
<1>3. ASSUME NEW f \in Frame, NEW h \in Hart PROVE [f EXCEPT !.hart = h] \in Frame
  OBVIOUS
<1>4. ASSUME NEW f \in Frame, NEW s \in Sig PROVE [f EXCEPT !.code = s, !.a0 = s] \in Frame
  <2>1. s \in Int /\ s \in Sig \cup {Main}
    OBVIOUS
  <2>2. [f EXCEPT !.code = s] \in Frame
    BY <2>1
  <2>3. [[f EXCEPT !.code = s] EXCEPT !.a0 = s] \in Frame
    BY <2>1, <2>2, <1>2, Zenon
  <2> QED BY <2>3
<1> QED BY <1>1, <1>2, <1>3, <1>4, Zenon

\* Return() keeps the types.
LEMMA ReturnType ==
  ASSUME TypeOK, NEW p \in Proc, NEW r \in Int, Return(p, r)
  PROVE  tf' \in [Proc -> Frame] /\ expect' \in [Proc -> Int]
<1>1. [tf[p] EXCEPT !.a0 = r] \in Frame
  BY FrameTypes, Zenon DEF TypeOK
<1>2. tf' = [tf EXCEPT ![p] = [tf[p] EXCEPT !.a0 = r]]
  BY DEF Return, TypeOK
<1> QED BY <1>1, <1>2 DEF Return, TypeOK

\* Every step preserves the types.
LEMMA TypeOKStep ==
  ASSUME TypeOK, NEW p \in Proc, StepOf(p)
  PROVE  TypeOK'
<1> USE DEF Goto, userVars, sigVars, sendVars
<1>a. load.harts \subseteq Hart /\ load.sigs \subseteq Sig
  BY SignalsConstants DEF TypeOK
<1>b. ASSUME NEW r \in Int, Return(p, r)
      PROVE  tf' \in [Proc -> Frame] /\ expect' \in [Proc -> Int]
  BY <1>b, ReturnType
<1>1. CASE kexec_commit(p)
  <2>1. NewFrame(p) \in Frame /\ NewFrame(p).a0 \in Int
    BY DEF NewFrame, TypeOK, Frame
  <2> QED BY <1>1, <2>1, FrameTypes, Zenon DEF kexec_commit, init_signals, TypeOK
<1>2. CASE kexec_fails(p)
  <2>1. Return(p, -1)
    BY <1>2 DEF kexec_fails
  <2>2. tf' \in [Proc -> Frame] /\ expect' \in [Proc -> Int]
    BY <1>b, <2>1
  <2> QED BY <1>2, <2>2, Zenon DEF kexec_fails, TypeOK
<1>3. CASE check_killed(p)
  BY <1>3 DEF check_killed, AfterCheck, TypeOK
<1>4. CASE prepare_return(p)
  <2>1. [tf[p] EXCEPT !.hart = cpu[p]] \in Frame
    BY FrameTypes, Zenon DEF TypeOK
  <2>2. tf' = [tf EXCEPT ![p] = [tf[p] EXCEPT !.hart = cpu[p]]]
    BY <1>4 DEF prepare_return, HartSet, TypeOK
  <2> QED BY <1>4, <2>1, <2>2 DEF prepare_return, TypeOK
<1>5. CASE kexit(p)
  BY <1>5, FrameTypes, Zenon DEF kexit, init_signals, TypeOK
<1>6. CASE kkill_store(p)
  BY <1>6 DEF kkill_store, Free, TypeOK
<1>7. CASE UserStep(p)
  <2>1. PICK r \in {0, 1} : Return(p, r)
    BY <1>7 DEF UserStep
  <2>2. tf' \in [Proc -> Frame] /\ expect' \in [Proc -> Int]
    BY <1>b, <2>1
  <2> QED BY <1>7, <2>2 DEF UserStep, TypeOK
<1>8. CASE timer(p)
  BY <1>8, <1>a DEF timer, TypeOK
<1>9. CASE fault(p)
  BY <1>9 DEF fault, TypeOK
<1>10. CASE syscall_killed(p)
  BY <1>10 DEF syscall_killed, TypeOK
<1>11. CASE sys_sigreturn(p)
  <2>1. CASE valid[p]
    BY <1>11, <2>1, Zenon DEF sys_sigreturn, Restored, TypeOK
  <2>2. CASE ~valid[p]
    <3>1. Return(p, -1)
      BY <1>11, <2>2 DEF sys_sigreturn
    <3>2. tf' \in [Proc -> Frame] /\ expect' \in [Proc -> Int]
      BY <1>b, <3>1
    <3> QED BY <1>11, <2>2, <3>2, Zenon DEF sys_sigreturn, TypeOK
  <2> QED BY <2>1, <2>2
<1>12. CASE sys_other(p)
  <2>1. Return(p, 1)
    BY <1>12 DEF sys_other
  <2>2. tf' \in [Proc -> Frame] /\ expect' \in [Proc -> Int]
    BY <1>b, <2>1
  <2> QED BY <1>12, <1>a, <2>2, Zenon DEF sys_other, TypeOK
<1>13. CASE kexec(p)
  BY <1>13 DEF kexec, TypeOK
<1>14. CASE handle_signals(p)
  <2> DEFINE s == Least(pending[p])
  <2>1. CASE MayHandle(p) /\ Deliver(p, s) /\ (s = SIGKILL \/ s \notin handled[p])
    BY <1>14, <2>1, Zenon DEF handle_signals, Deliver, TypeOK
  <2>2. CASE MayHandle(p) /\ Deliver(p, s) /\ s # SIGKILL /\ s \in handled[p]
    <3>1. s \in Sig
      BY <2>2 DEF TypeOK
    <3> HIDE DEF s
    <3>2. [tf[p] EXCEPT !.code = s, !.a0 = s] \in Frame
      BY <3>1, FrameTypes, Zenon DEF TypeOK
    <3>3. tf' = [tf EXCEPT ![p] = [tf[p] EXCEPT !.code = s, !.a0 = s]]
      BY <2>2, Zenon DEF Deliver, TypeOK
    <3>4. tf' \in [Proc -> Frame] /\ tf[p] \in Frame
      BY <3>2, <3>3 DEF TypeOK
    <3>5. sigtf' \in [Proc -> Frame] /\ valid' \in [Proc -> BOOLEAN]
      BY <2>2, <3>4, Zenon DEF Deliver, TypeOK
    <3>6. pending' \in [Proc -> SUBSET Sig] /\ UNCHANGED killed
      BY <2>2 DEF Deliver, TypeOK
    <3> QED BY <1>14, <3>4, <3>5, <3>6, Zenon DEF handle_signals, TypeOK
  <2>3. CASE ~MayHandle(p)
    BY <1>14, <2>3 DEF handle_signals, TypeOK
  <2> QED BY <1>14, <2>1, <2>2, <2>3 DEF handle_signals
<1>15. ASSUME NEW q \in Proc, kfork(p, q) PROVE TypeOK'
  <2>1. /\ [tf[p] EXCEPT !.a0 = 1] \in Frame
        /\ [tf[p] EXCEPT !.a0 = 0] \in Frame
    <3>1. tf[p] \in Frame /\ 0 \in Int /\ 1 \in Int
      BY DEF TypeOK
    <3> QED BY <3>1, FrameTypes, Zenon
  <2>2. tf' = [tf EXCEPT ![p] = [tf[p] EXCEPT !.a0 = 1], ![q] = [tf[p] EXCEPT !.a0 = 0]]
    BY <1>15 DEF kfork, TypeOK
  <2>3. tf' \in [Proc -> Frame]
    BY <2>1, <2>2 DEF TypeOK
  <2>4. sigtf' \in [Proc -> Frame]
    BY <1>15, FrameTypes, Zenon DEF kfork, TypeOK
  <2>5. expect' \in [Proc -> Int]
    BY <1>15 DEF kfork, TypeOK
  <2> QED BY <1>15, <2>3, <2>4, <2>5 DEF kfork, ChildValid, TypeOK
<1>16. ASSUME NEW s \in load.sigs \cup {SIGKILL}, sys_signal(p, s) PROVE TypeOK'
  <2>1. Return(p, -1) \/ Return(p, 0) \/ Return(p, 1)
    BY <1>16 DEF sys_signal
  <2>2. tf' \in [Proc -> Frame] /\ expect' \in [Proc -> Int]
    BY <1>b, <2>1
  <2>3. handled' \in [Proc -> SUBSET Sig]
    BY <1>16, <1>a DEF sys_signal, Rejected, TypeOK
  <2> QED BY <1>16, <2>2, <2>3, Zenon DEF sys_signal, TypeOK
<1>17. ASSUME NEW s \in load.sigs \cup {SIGKILL}, kkill(p, s) PROVE TypeOK'
  <2>1. sending' \in [Proc -> Sig \cup {None}] /\ read' \in [Proc -> SUBSET Sig]
    BY <1>17, <1>a DEF kkill, TypeOK
  <2>2. sends' \in Nat
    BY <1>17 DEF kkill, TypeOK
  <2>3. killed' = killed \/ killed' = [killed EXCEPT ![p] = TRUE]
    BY <1>17 DEF kkill
  <2>4. killed' \in [Proc -> BOOLEAN]
    BY <2>3, Zenon DEF TypeOK
  <2> QED BY <1>17, <2>1, <2>2, <2>4 DEF kkill, TypeOK
<1> QED
  BY <1>1, <1>2, <1>3, <1>4, <1>5, <1>6, <1>7, <1>8, <1>9, <1>10, <1>11, <1>12, <1>13,
     <1>14, <1>15, <1>16, <1>17 DEF StepOf, KernelStep

(***************************************************************************)
(* The frames.                                                              *)
(***************************************************************************)

\* Every step preserves the invariant: a handler starts only when no frame is
\* saved, and saves the one it interrupts; sigreturn() gives it back; fork() and
\* exec() leave no saved frame behind.
LEMMA FrameInvStep ==
  ASSUME TypeOK, FrameInv, NEW p \in Proc, StepOf(p)
  PROVE  FrameInv'
<1> USE SignalsConstants DEF TypeOK, Frame, FrameInv, Main, InHandler, InUser, Goto,
        userVars, sigVars, sendVars
<1>1. CASE kexec_commit(p)
  BY <1>1 DEF kexec_commit, NewFrame, init_signals, Zero
<1>2. CASE kexec_fails(p)
  BY <1>2 DEF kexec_fails, Return
<1>3. CASE check_killed(p)
  BY <1>3 DEF check_killed, AfterCheck
<1>4. CASE prepare_return(p)
  BY <1>4 DEF prepare_return, HartSet
<1>5. CASE kexit(p)
  BY <1>5 DEF kexit, init_signals, Zero
<1>6. CASE kkill_store(p)
  BY <1>6 DEF kkill_store
<1>7. CASE UserStep(p)
  BY <1>7 DEF UserStep, Return
<1>8. CASE timer(p)
  BY <1>8 DEF timer
<1>9. CASE fault(p)
  BY <1>9 DEF fault
<1>10. CASE syscall_killed(p)
  BY <1>10 DEF syscall_killed
<1>11. CASE sys_sigreturn(p)
  BY <1>11 DEF sys_sigreturn, Syscall, Return, Restored
<1>12. CASE sys_other(p)
  BY <1>12 DEF sys_other, Syscall, Return
<1>13. CASE kexec(p)
  BY <1>13 DEF kexec, Syscall
<1>14. CASE handle_signals(p)
  <2>1. CASE MayHandle(p) /\ Deliver(p, Least(pending[p]))
    <3> DEFINE s == Least(pending[p])
    <3>1. CASE s = SIGKILL \/ s \notin handled[p]
      BY <1>14, <2>1, <3>1 DEF handle_signals, Deliver
    <3>2. CASE s # SIGKILL /\ s \in handled[p]
      BY <1>14, <2>1, <3>2 DEF handle_signals, Deliver, MayHandle
    <3> QED BY <3>1, <3>2
  <2>2. CASE ~MayHandle(p)
    BY <1>14, <2>2 DEF handle_signals
  <2> QED BY <1>14, <2>1, <2>2 DEF handle_signals
<1>15. ASSUME NEW q \in Proc, kfork(p, q) PROVE FrameInv'
  <2>1. /\ InUser(p) /\ p # q /\ load.forks /\ UNCHANGED load
        /\ place' = [place EXCEPT ![p] = "signals", ![q] = "return"]
        /\ valid' = [valid EXCEPT ![q] = FALSE]
    BY <1>15 DEF kfork, Syscall, ChildValid
  <2>2. /\ tf'[p].code = tf[p].code /\ tf'[p].a0 = 1
        /\ tf'[q].code = tf[p].code /\ tf'[q].a0 = 0
        /\ \A r \in Proc \ {p, q} : tf'[r] = tf[r]
    BY <1>15, <2>1 DEF kfork
  <2>3. /\ ~InHandler(p) => expect'[p] = 1 /\ expect'[q] = 0
        /\ InHandler(p) => expect'[p] = expect[p]
        /\ \A r \in Proc \ {p, q} : expect'[r] = expect[r]
    BY <1>15, <2>1 DEF kfork
  <2>4. \A r \in Proc \ {q} : sigtf'[r] = sigtf[r] /\ cpu'[r] = cpu[r]
    BY <1>15 DEF kfork
  <2> QED BY <2>1, <2>2, <2>3, <2>4
<1>16. ASSUME NEW s \in load.sigs \cup {SIGKILL}, sys_signal(p, s) PROVE FrameInv'
  BY <1>16 DEF sys_signal, Syscall, Rejected, Return
<1>17. ASSUME NEW s \in load.sigs \cup {SIGKILL}, kkill(p, s) PROVE FrameInv'
  BY <1>17 DEF kkill
<1> QED
  BY <1>1, <1>2, <1>3, <1>4, <1>5, <1>6, <1>7, <1>8, <1>9, <1>10, <1>11, <1>12, <1>13,
     <1>14, <1>15, <1>16, <1>17, Zenon DEF StepOf, KernelStep

\* At the start there is one process, in user space, with no saved frame.
LEMMA InitFrameInv == Init => TypeOK /\ FrameInv
<1> SUFFICES ASSUME Init PROVE TypeOK /\ FrameInv
  OBVIOUS
<1>1. PICK h \in load.harts : /\ cpu = [p \in Proc |-> h]
                              /\ tf = [p \in Proc |-> [Zero EXCEPT !.hart = h]]
  BY DEF Init
<1>2. h \in Hart /\ load \in Load
  BY SignalsConstants DEF Init
<1>3. [Zero EXCEPT !.hart = h] \in Frame /\ Zero \in Frame
  BY <1>2, FrameTypes, Zenon
<1>4. TypeOK
  <2>1. /\ cpu \in [Proc -> Hart] /\ tf \in [Proc -> Frame] /\ sigtf \in [Proc -> Frame]
        /\ load \in Load
    BY <1>1, <1>2, <1>3, Zenon DEF Init
  <2>2. /\ place \in [Proc -> {"unused", "user", "signals", "exec", "check", "return", "exit"}]
        /\ valid \in [Proc -> BOOLEAN] /\ killed \in [Proc -> BOOLEAN]
    BY DEF Init
  <2>3. /\ pending \in [Proc -> SUBSET Sig] /\ handled \in [Proc -> SUBSET Sig]
        /\ read \in [Proc -> SUBSET Sig] /\ sending \in [Proc -> Sig \cup {None}]
    BY DEF Init
  <2>4. sends \in Nat /\ expect \in [Proc -> Int]
    BY DEF Init
  <2> QED BY <2>1, <2>2, <2>3, <2>4 DEF TypeOK
<1>5. FrameInv
  BY <1>1 DEF Init, FrameInv, InUser, InHandler, Zero, Main
<1> QED BY <1>4, <1>5

\* The frames' invariant holds in every behaviour.
THEOREM FrameInvariant == Spec => [](TypeOK /\ FrameInv)
<1>1. TypeOK /\ FrameInv /\ [Next]_vars => (TypeOK /\ FrameInv)'
  <2>1. ASSUME TypeOK, FrameInv, UNCHANGED vars PROVE (TypeOK /\ FrameInv)'
    BY <2>1 DEF vars, TypeOK, FrameInv, InUser, InHandler
  <2>2. ASSUME TypeOK, FrameInv, NEW p \in Proc, StepOf(p) PROVE (TypeOK /\ FrameInv)'
    BY <2>2, TypeOKStep, FrameInvStep
  <2> QED BY <2>1, <2>2 DEF Next, StepOf
<1> QED BY InitFrameInv, <1>1, PTL DEF Spec

\* handle_signals(), sigreturn(), kexec() and prepare_return() together never
\* disturb the interrupted program: its registers are as it left them, and the
\* frame names the hart the process runs on.
THEOREM HandlersAreTransparent == Spec => []MainUndisturbed
<1>1. FrameInv => MainUndisturbed
  BY DEF FrameInv, MainUndisturbed, InUser
<1> QED BY <1>1, FrameInvariant, PTL

\* Without fork(), sig_trapframe_valid says exactly that a handler runs.
THEOREM SavedFrameExact == Spec => []FrameExact
<1>1. FrameInv => FrameExact
  BY DEF FrameInv, FrameExact, InUser
<1> QED BY <1>1, FrameInvariant, PTL
=============================================================================
