----------------------------- MODULE LogProofs ------------------------------
(***************************************************************************)
(* Theorems about the log for any number of threads, blocks, reservations   *)
(* and crashes.                                                             *)
(***************************************************************************)
EXTENDS Log, TLAPS

(***************************************************************************)
(* Facts about a state of the invariant.                                    *)
(***************************************************************************)

\* A thread that is anywhere but idle runs after recovery has finished.
LEMMA BusyMeansUp ==
  ASSUME LogInv, NEW p \in Proc, pc[p] # "idle"
  PROVE  boot = "up"
BY DEF LogInv, ControlInv

\* The block install_trans() is about to install is pinned.
LEMMA NextInstallPinned ==
  ASSUME LogInv, NEW p \in Proc, pc[p] = "install"
  PROVE  /\ tail + 1 \in 1..Len(lh)
         /\ lh[tail + 1] \in Block
         /\ Unwritten(tail + 1)
         /\ pin[lh[tail + 1]] = 1
         /\ boot = "up"
<1>1. boot = "up"
  BY BusyMeansUp
<1>2. tail + 1 \in 1..Len(lh) /\ lh[tail + 1] \in Block
  BY DEF LogInv, HeaderInv, TypeOK, LogType, CtlType
<1>3. \A q \in Proc : pc[q] \in CommitPc => q = p
  BY DEF LogInv, ControlInv, CommitPc
<1>4. Unwritten(tail + 1)
  BY <1>3 DEF Unwritten, CommitPc, LogInv, TypeOK, CtlType
<1>5. pin[lh[tail + 1]] = 1
  BY <1>1, <1>2, <1>4 DEF LogInv, BufferInv
<1> QED BY <1>1, <1>2, <1>4, <1>5

(***************************************************************************)
(* Every action preserves each part of the invariant.                       *)
(***************************************************************************)

\* Every step of the log keeps the types; log_write() stays within the log
\* area because it panics first.  (OpsFinite gives the last assumption.)
LEMMA TypeOKStep ==
  ASSUME LogInv, [Next]_vars, Ops # {} => outstanding >= 1
  PROVE  TypeOK'
<1> USE LogConstants DEF diskVars, bufVars, logVars, opVars, ctlVars
<1>0. DiskType /\ BufType /\ LogType /\ OpType /\ CtlType
  BY DEF LogInv, TypeOK
<1> USE <1>0 DEF DiskType, BufType, LogType, OpType, CtlType, TypeOK
<1>1. ASSUME NEW b \in Block, bread(b) PROVE TypeOK'
  BY <1>1 DEF bread
<1>2. ASSUME NEW b \in Block, Recycle(b) PROVE TypeOK'
  BY <1>2 DEF Recycle
<1>3. ASSUME NEW p \in Proc, begin_op(p) PROVE TypeOK'
  <2>1. pc' \in [Proc -> Pc]
    BY <1>3, Zenon DEF begin_op, Pc
  <2>2. wrote' \in [Proc -> SUBSET Block]
    BY <1>3, Zenon DEF begin_op
  <2>3. calls' \in [Proc -> 0..MaxCalls]
    <3>1. 0 \in 0..MaxCalls
      OBVIOUS
    <3> QED BY <1>3, <3>1, Zenon DEF begin_op
  <2>4. LogType'
    BY <1>3 DEF begin_op
  <2> QED BY <1>3, <2>1, <2>2, <2>3, <2>4, Zenon DEF begin_op
<1>4. ASSUME NEW p \in Proc, NEW b \in Block, NEW v \in Val, Modify(p, b, v)
      PROVE TypeOK'
  BY <1>4 DEF Modify
<1>5. ASSUME NEW p \in Proc, NEW b \in Block, log_write(p, b) PROVE TypeOK'
  <2>1. lh' \in Seq(Block) /\ Len(lh') <= LOGBLOCKS
    <3>1. CASE Logged(b)
      BY <1>5, <3>1 DEF log_write, Record
    <3>2. CASE ~Logged(b)
      <4>1. lh' = Append(lh, b) /\ Len(lh) < LOGBLOCKS
        BY <1>5, <3>2 DEF log_write, Record, LogWritePanics
      <4> QED BY <4>1
    <3> QED BY <3>1, <3>2
  <2>2. pin' \in [Block -> Nat]
    BY <1>5 DEF log_write, Record
  <2>3. holder' \in [Block -> Proc \cup {None}]
    BY <1>5 DEF log_write
  <2>4. wrote' \in [Proc -> SUBSET Block]
    BY <1>5 DEF log_write
  <2> QED BY <1>5, <2>1, <2>2, <2>3, <2>4, Zenon DEF log_write
<1>6. ASSUME NEW p \in Proc, end_op(p) PROVE TypeOK'
  <2>1. outstanding' \in Nat
    BY <1>6 DEF end_op, Ops
  <2>2. pc' \in [Proc -> Pc]
    <3>1. CASE LastOut
      BY <1>6, <3>1, Zenon DEF end_op, Pc, CommitPc
    <3>2. CASE ~LastOut
      BY <1>6, <3>2, Zenon DEF end_op, wakeup, Pc
    <3> QED BY <3>1, <3>2
  <2>3. committing' \in BOOLEAN
    BY <1>6, Zenon DEF end_op
  <2>4. tail' \in 0..LOGBLOCKS
    BY <1>6 DEF end_op
  <2> QED BY <1>6, <2>1, <2>2, <2>3, <2>4 DEF end_op
<1>7. ASSUME NEW p \in Proc, write_log(p) PROVE TypeOK'
  <2>1. tail < Len(lh) /\ tail + 1 \in 1..Len(lh) /\ lh[tail + 1] \in Block
    BY <1>7 DEF write_log, LogInv, HeaderInv
  <2>2. Contents(lh[tail + 1]) \in Val
    BY <2>1 DEF Contents
  <2>3. cache' \in [Block -> Val \cup {None}]
    BY <1>7, <2>1, <2>2 DEF write_log
  <2>4. logblk' \in [1..LOGBLOCKS -> Val]
    BY <1>7, <2>1, <2>2, Zenon DEF write_log
  <2>5. pc' \in [Proc -> Pc]
    BY <1>7, Zenon DEF write_log, Pc, CommitPc
  <2>6. tail' \in 0..LOGBLOCKS
    BY <1>7 DEF write_log
  <2> QED BY <1>7, <2>3, <2>4, <2>5, <2>6 DEF write_log
<1>8. ASSUME NEW p \in Proc, write_head(p) PROVE TypeOK'
  BY <1>8, Zenon DEF write_head, Pc, CommitPc
<1>9. ASSUME NEW p \in Proc, install_trans(p) PROVE TypeOK'
  <2>1. /\ tail + 1 \in 1..Len(lh)
        /\ lh[tail + 1] \in Block
        /\ pin[lh[tail + 1]] = 1
    BY <1>9, NextInstallPinned, Zenon DEF install_trans
  <2>2. cache' \in [Block -> Val \cup {None}] /\ disk' \in [Block -> Val]
    BY <1>9, <2>1 DEF install_trans, InstallBlock
  <2>3. pin' \in [Block -> Nat]
    BY <1>9, <2>1 DEF install_trans
  <2>4. pc' \in [Proc -> Pc]
    BY <1>9, Zenon DEF install_trans, Pc, CommitPc
  <2>5. tail' \in 0..LOGBLOCKS
    BY <1>9 DEF install_trans
  <2> QED BY <1>9, <2>2, <2>3, <2>4, <2>5 DEF install_trans
<1>10. ASSUME NEW p \in Proc, erase(p) PROVE TypeOK'
  BY <1>10 DEF erase, Erase, Pc, CommitPc
<1>11. ASSUME NEW p \in Proc, CommitDone(p) PROVE TypeOK'
  <2>1. pc' \in [Proc -> Pc]
    BY <1>11 DEF CommitDone, wakeup, Pc
  <2> QED BY <1>11, <2>1, Zenon DEF CommitDone
<1>12. ASSUME read_head PROVE TypeOK'
  BY <1>12, Zenon DEF read_head, BootPc
<1>13. ASSUME RecoverInstall PROVE TypeOK'
  BY <1>13 DEF RecoverInstall, InstallBlock
<1>14. ASSUME RecoverErase PROVE TypeOK'
  BY <1>14 DEF RecoverErase, Erase, BootPc
<1>15. ASSUME Crash PROVE TypeOK'
  <2>1. BufType'
    BY <1>15 DEF Crash
  <2>2. LogType'
    <3>1. committing' \in BOOLEAN
      BY <1>15, Zenon DEF Crash
    <3>2. lh' \in Seq(Block) /\ Len(lh') <= LOGBLOCKS /\ outstanding' \in Nat
      BY <1>15 DEF Crash
    <3> QED BY <3>1, <3>2
  <2>3. OpType'
    BY <1>15 DEF Crash, Pc
  <2>4. CtlType'
    BY <1>15 DEF Crash, BootPc
  <2> QED BY <1>15, <2>1, <2>2, <2>3, <2>4 DEF Crash
<1>16. ASSUME UNCHANGED vars PROVE TypeOK'
  BY <1>16 DEF vars
<1> QED
  BY <1>1, <1>2, <1>3, <1>4, <1>5, <1>6, <1>7, <1>8, <1>9, <1>10, <1>11, <1>12,
     <1>13, <1>14, <1>15, <1>16, Zenon DEF Next, CommitStep, RecoverStep

\* The header on the disk is empty, or the one being installed.
LEMMA HeaderInvStep ==
  ASSUME LogInv, [Next]_vars
  PROVE  HeaderInv'
<1> USE LogConstants DEF diskVars, bufVars, logVars, opVars, ctlVars
<1>0. HeaderInv /\ ControlInv /\ TypeOK
  BY DEF LogInv
<1>t. OpType /\ LogType /\ CtlType /\ DiskType
  BY <1>0 DEF TypeOK
<1>a. ASSUME UNCHANGED <<pc, outstanding, committing, boot, lh, head, tail>>
      PROVE  HeaderInv'
  BY <1>0, <1>a DEF HeaderInv
<1>1. ASSUME NEW b \in Block, bread(b) PROVE HeaderInv'
  BY <1>1, <1>a DEF bread
<1>2. ASSUME NEW b \in Block, Recycle(b) PROVE HeaderInv'
  BY <1>2, <1>a, Zenon DEF Recycle
<1>3. ASSUME NEW p \in Proc, begin_op(p) PROVE HeaderInv'
  <2>1. /\ pc[p] \in {"idle", "retry"} /\ boot = "up"
        /\ UNCHANGED <<lh, head, tail, boot, committing>>
        /\ outstanding' = outstanding \/ outstanding' = outstanding + 1
        /\ pc' = [pc EXCEPT ![p] = "op"] \/ pc' = [pc EXCEPT ![p] = "sleep"]
    BY <1>3 DEF begin_op
  <2> QED BY <1>0, <1>t, <2>1 DEF HeaderInv, OpType, LogType
<1>4. ASSUME NEW p \in Proc, NEW b \in Block, NEW v \in Val, Modify(p, b, v)
      PROVE HeaderInv'
  BY <1>4, <1>a DEF Modify
<1>5. ASSUME NEW p \in Proc, NEW b \in Block, log_write(p, b) PROVE HeaderInv'
  <2>1. CASE Logged(b)
    BY <1>5, <1>a, <2>1, Zenon DEF log_write, Record
  <2>2. CASE ~Logged(b)
    <3>1. /\ lh' = Append(lh, b) /\ pc[p] = "op" /\ outstanding >= 1
          /\ UNCHANGED <<pc, outstanding, committing, boot, head, tail>>
      BY <1>5, <1>t, <2>2 DEF log_write, Record, LogWritePanics, LogType
    <3>2. boot = "up" /\ ~committing
      BY <1>0, <3>1, BusyMeansUp DEF ControlInv, Ops
    <3>3. \A q \in Proc : pc[q] \notin CommitPc
      BY <1>0, <3>2 DEF ControlInv
    <3>4. \A i, j \in 1..Len(lh') : lh'[i] = lh'[j] => i = j
      BY <1>0, <1>t, <2>2, <3>1 DEF HeaderInv, LogType, Logged
    <3> QED BY <1>0, <1>t, <3>1, <3>2, <3>3, <3>4 DEF HeaderInv, CommitPc
  <2> QED BY <2>1, <2>2
<1>6. ASSUME NEW p \in Proc, end_op(p) PROVE HeaderInv'
  <2>0. /\ pc[p] = "op" /\ ~committing
        /\ outstanding' = outstanding - 1
        /\ UNCHANGED <<lh, head, boot>>
    BY <1>6 DEF end_op
  <2>1. boot = "up" /\ \A q \in Proc : pc[q] \notin CommitPc
    BY <1>0, <2>0, BusyMeansUp DEF ControlInv
  <2>2. head = <<>>
    BY <1>0, <2>1, Zenon DEF HeaderInv, CommitPc
  <2>3. CASE LastOut
    <3>1. /\ committing' = TRUE /\ tail' = 0
          /\ pc' = [pc EXCEPT ![p] = IF lh = <<>> THEN "done" ELSE "write_log"]
      BY <1>6, <2>3 DEF end_op
    <3>2. lh # <<>> => 0 < Len(lh)
      BY <1>t DEF LogType
    <3> QED BY <1>0, <1>t, <2>0, <2>1, <2>2, <3>1, <3>2
            DEF HeaderInv, OpType, CommitPc
  <2>4. CASE ~LastOut
    <3>1. pc' = [wakeup(pc) EXCEPT ![p] = "idle"] /\ UNCHANGED <<committing, tail>>
      BY <1>6, <2>4 DEF end_op
    <3>2. \A q \in Proc : pc'[q] \notin CommitPc
      BY <1>t, <2>1, <3>1 DEF wakeup, OpType, CommitPc
    <3>3. outstanding' # 0
      BY <1>t, <2>0, <2>4 DEF LastOut, LogType
    <3> QED BY <1>0, <2>0, <2>1, <2>2, <3>1, <3>2, <3>3 DEF HeaderInv, CommitPc
  <2> QED BY <2>3, <2>4
<1>7. ASSUME NEW p \in Proc, pc[p] \in CommitPc
      PROVE  /\ boot = "up" /\ committing /\ Ops = {}
             /\ \A q \in Proc : pc[q] \in CommitPc => q = p
  BY <1>0, <1>7, BusyMeansUp, Zenon DEF ControlInv, CommitPc
<1>8. ASSUME NEW p \in Proc, write_log(p) PROVE HeaderInv'
  <2>1. /\ pc[p] = "write_log"
        /\ \/ tail + 1 < Len(lh) /\ tail' = tail + 1 /\ pc' = pc
           \/ tail + 1 = Len(lh) /\ tail' = 0 /\ pc' = [pc EXCEPT ![p] = "commit"]
        /\ UNCHANGED <<lh, head, boot, committing, outstanding>>
    BY <1>8 DEF write_log
  <2>2. /\ boot = "up" /\ committing
        /\ \A q \in Proc : pc[q] \in CommitPc => q = p
    BY <1>7, <2>1 DEF CommitPc
  <2>3. tail < Len(lh) /\ lh # <<>>
    BY <1>0, <1>t, <2>1 DEF HeaderInv, LogType, CtlType
  <2> QED BY <1>0, <1>t, <2>1, <2>2, <2>3
          DEF HeaderInv, CommitPc, OpType, LogType, CtlType
<1>9. ASSUME NEW p \in Proc, write_head(p) PROVE HeaderInv'
  <2>1. /\ pc[p] = "commit" /\ pc' = [pc EXCEPT ![p] = "install"] /\ head' = lh
        /\ UNCHANGED <<lh, boot, committing, outstanding, tail>>
    BY <1>9 DEF write_head
  <2>2. /\ boot = "up" /\ committing
        /\ \A q \in Proc : pc[q] \in CommitPc => q = p
    BY <1>7, <2>1, Zenon DEF CommitPc
  <2>3. tail < Len(lh)
    BY <1>0, <1>t, <2>1 DEF HeaderInv, LogType, CtlType
  <2> QED BY <1>0, <1>t, <2>1, <2>2, <2>3 DEF HeaderInv, CommitPc, OpType
<1>10. ASSUME NEW p \in Proc, install_trans(p) PROVE HeaderInv'
  <2>1. /\ pc[p] = "install"
        /\ \/ tail + 1 < Len(lh) /\ tail' = tail + 1 /\ pc' = pc
           \/ tail + 1 = Len(lh) /\ tail' = 0 /\ pc' = [pc EXCEPT ![p] = "erase"]
        /\ UNCHANGED <<lh, head, boot, committing, outstanding>>
    BY <1>10 DEF install_trans
  <2>2. /\ boot = "up" /\ committing
        /\ \A q \in Proc : pc[q] \in CommitPc => q = p
    BY <1>7, <2>1, Zenon DEF CommitPc
  <2> QED BY <1>0, <1>t, <2>1, <2>2 DEF HeaderInv, CommitPc, OpType, CtlType
<1>11. ASSUME NEW p \in Proc, erase(p) PROVE HeaderInv'
  <2>1. /\ pc[p] = "erase" /\ pc' = [pc EXCEPT ![p] = "done"]
        /\ lh' = <<>> /\ head' = <<>>
        /\ UNCHANGED <<boot, committing, outstanding, tail>>
    BY <1>11 DEF erase, Erase
  <2>2. /\ boot = "up" /\ committing
        /\ \A q \in Proc : pc[q] \in CommitPc => q = p
    BY <1>7, <2>1, Zenon DEF CommitPc
  <2> QED BY <1>0, <1>t, <2>1, <2>2 DEF HeaderInv, CommitPc, OpType
<1>12. ASSUME NEW p \in Proc, CommitDone(p) PROVE HeaderInv'
  <2>1. /\ pc[p] = "done" /\ pc' = [wakeup(pc) EXCEPT ![p] = "idle"]
        /\ UNCHANGED <<lh, head, boot, outstanding, tail>>
    BY <1>12 DEF CommitDone
  <2>2. /\ boot = "up" /\ committing
        /\ \A q \in Proc : pc[q] \in CommitPc => q = p
    BY <1>7, <2>1 DEF CommitPc
  <2>3. \A q \in Proc : pc'[q] \notin CommitPc
    BY <1>t, <2>1, <2>2, Zenon DEF wakeup, OpType, CommitPc
  <2>4. lh = <<>> /\ head = <<>>
    BY <1>0, <2>1, <2>2, Zenon DEF HeaderInv, CommitPc
  <2> QED BY <1>0, <2>1, <2>2, <2>3, <2>4 DEF HeaderInv, CommitPc
<1>13. ASSUME boot # "up" PROVE \A q \in Proc : pc[q] = "idle"
  BY <1>0, <1>13, Zenon DEF ControlInv
<1>14. ASSUME read_head PROVE HeaderInv'
  BY <1>0, <1>13, <1>14 DEF read_head, HeaderInv, LogType, DiskType, TypeOK
<1>15. ASSUME RecoverInstall PROVE HeaderInv'
  BY <1>0, <1>t, <1>13, <1>15 DEF RecoverInstall, HeaderInv, CtlType, LogType
<1>16. ASSUME RecoverErase PROVE HeaderInv'
  BY <1>0, <1>13, <1>16 DEF RecoverErase, Recovered, Erase, HeaderInv
<1>17. ASSUME Crash PROVE HeaderInv'
  BY <1>0, <1>17 DEF Crash, HeaderInv
<1>18. ASSUME UNCHANGED vars PROVE HeaderInv'
  BY <1>18, <1>a DEF vars
<1> QED
  BY <1>1, <1>2, <1>3, <1>4, <1>5, <1>6, <1>8, <1>9, <1>10, <1>11, <1>12,
     <1>14, <1>15, <1>16, <1>17, <1>18 DEF Next, CommitStep, RecoverStep

\* A logged buffer stays pinned until it is installed, and an unpinned
\* unlocked buffer agrees with the disk.
LEMMA BufferInvStep ==
  ASSUME LogInv, [Next]_vars
  PROVE  BufferInv'
<1> USE LogConstants DEF diskVars, bufVars, logVars, opVars, ctlVars
<1>0. BufferInv /\ HeaderInv /\ ControlInv /\ TypeOK
  BY DEF LogInv
<1>t. BufType /\ OpType /\ LogType /\ CtlType /\ DiskType
  BY <1>0 DEF TypeOK
\* A step that moves no thread into or out of install_trans().
<1>a. ASSUME \A q \in Proc : pc[q] \notin {"install", "erase"},
             \A q \in Proc : pc'[q] \notin {"install", "erase"}
      PROVE  (\A i : Unwritten(i)) /\ (\A i : Unwritten(i)')
  BY <1>a, Zenon DEF Unwritten
<1>b. ASSUME \A i : Unwritten(i)' <=> Unwritten(i),
             UNCHANGED <<disk, cache, pin, holder, lh, boot>>
      PROVE  BufferInv'
  BY <1>0, <1>b DEF BufferInv
<1>c. ASSUME UNCHANGED <<pc, tail>>
      PROVE  \A i : Unwritten(i)' <=> Unwritten(i)
  BY <1>c, Zenon DEF Unwritten
<1>1. ASSUME NEW b \in Block, bread(b) PROVE BufferInv'
  BY <1>0, <1>t, <1>1, <1>c, Zenon DEF bread, BufferInv, BufType, DiskType
<1>2. ASSUME NEW b \in Block, Recycle(b) PROVE BufferInv'
  BY <1>0, <1>t, <1>2, <1>c DEF Recycle, Recyclable, BufferInv, BufType
<1>3. ASSUME NEW p \in Proc, begin_op(p) PROVE BufferInv'
  <2>1. /\ pc[p] \in {"idle", "retry"}
        /\ UNCHANGED <<disk, cache, pin, holder, lh, boot, tail>>
        /\ pc' = [pc EXCEPT ![p] = "op"] \/ pc' = [pc EXCEPT ![p] = "sleep"]
    BY <1>3 DEF begin_op
  <2>2. \A i : Unwritten(i)' <=> Unwritten(i)
    BY <1>t, <2>1, Zenon DEF Unwritten, OpType
  <2> QED BY <1>b, <2>1, <2>2, Zenon
<1>4. ASSUME NEW p \in Proc, NEW b \in Block, NEW v \in Val, Modify(p, b, v)
      PROVE BufferInv'
  BY <1>0, <1>t, <1>4, <1>c DEF Modify, BufferInv, BufType
<1>5. ASSUME NEW p \in Proc, NEW b \in Block, log_write(p, b) PROVE BufferInv'
  <2>1. /\ pc[p] = "op" /\ holder[b] = p
        /\ holder' = [holder EXCEPT ![b] = None]
        /\ UNCHANGED <<disk, cache, pc, tail, boot>>
    BY <1>5, Zenon DEF log_write
  <2>2. boot = "up" /\ \A q \in Proc : pc[q] \notin {"install", "erase"}
    BY <1>0, <2>1, BusyMeansUp DEF ControlInv, Ops, CommitPc
  <2>3. (\A i : Unwritten(i)) /\ (\A i : Unwritten(i)')
    BY <1>a, <2>1, <2>2, Zenon
  <2>4. cache[b] # None
    BY <1>0, <2>1, Zenon DEF BufferInv
  <2>5. CASE Logged(b)
    <3>1. UNCHANGED <<lh, pin>>
      BY <1>5, <2>5, Zenon DEF log_write, Record
    <3>2. pin[b] = 1
      BY <1>0, <2>2, <2>3, <2>5, Zenon DEF BufferInv, Logged
    <3> QED BY <1>0, <1>t, <2>1, <2>2, <2>3, <2>4, <3>1, <3>2 DEF BufferInv, BufType
  <2>6. CASE ~Logged(b)
    <3>1. lh' = Append(lh, b) /\ pin' = [pin EXCEPT ![b] = @ + 1]
      BY <1>5, <2>6, Zenon DEF log_write, Record
    <3>2. pin[b] = 0
      BY <1>0, <2>6, Zenon DEF BufferInv, Logged
    <3>3. /\ Len(lh') = Len(lh) + 1 /\ lh'[Len(lh) + 1] = b
          /\ \A i \in 1..Len(lh) : lh'[i] = lh[i] /\ lh[i] # b
      BY <1>t, <2>6, <3>1 DEF LogType, Logged
    <3>4. pin' \in [Block -> Nat] /\ pin'[b] = 1
          /\ \A c \in Block : c # b => pin'[c] = pin[c]
      BY <1>t, <3>1, <3>2 DEF BufType
    <3>5. \A i \in 1..Len(lh') : pin'[lh'[i]] = 1
      BY <1>0, <1>t, <2>2, <2>3, <3>3, <3>4 DEF BufferInv, LogType
    <3>6. \A c \in Block : pin'[c] # 0 =>
            pin'[c] = 1 /\ \E i \in 1..Len(lh') : lh'[i] = c
      <4> SUFFICES ASSUME NEW c \in Block, pin'[c] # 0
                   PROVE  pin'[c] = 1 /\ \E i \in 1..Len(lh') : lh'[i] = c
        BY Zenon
      <4>1. CASE c = b
        BY <1>t, <3>3, <3>4, <4>1 DEF LogType
      <4>2. CASE c # b
        <5>1. PICK i \in 1..Len(lh) : lh[i] = c /\ pin[c] = 1
          BY <1>0, <3>4, <4>2, Zenon DEF BufferInv
        <5> QED BY <1>t, <3>3, <3>4, <4>2, <5>1 DEF LogType
      <4> QED BY <4>1, <4>2, Zenon
    <3>7. \A c \in Block : pin'[c] # 0 \/ holder'[c] # None => cache'[c] # None
      BY <1>0, <1>t, <2>1, <2>4, <3>4, Zenon DEF BufferInv, BufType
    <3>8. \A c \in Block : pin'[c] = 0 /\ holder'[c] = None /\ cache'[c] # None =>
            cache'[c] = disk'[c]
      BY <1>0, <1>t, <2>1, <3>4 DEF BufferInv, BufType
    <3> QED BY <2>1, <2>2, <2>3, <3>5, <3>6, <3>7, <3>8, Zenon DEF BufferInv
  <2> QED BY <2>5, <2>6
<1>6. ASSUME NEW p \in Proc, end_op(p) PROVE BufferInv'
  <2>0. /\ pc[p] = "op" /\ ~committing
        /\ UNCHANGED <<disk, cache, pin, holder, lh, boot>>
    BY <1>6, Zenon DEF end_op
  <2>1. \A q \in Proc : pc[q] \notin {"install", "erase"}
    BY <1>0, <2>0 DEF ControlInv, CommitPc
  <2>2. \A q \in Proc : pc'[q] \notin {"install", "erase"}
    <3>1. CASE LastOut
      BY <1>6, <1>t, <2>1, <3>1, Zenon DEF end_op, OpType
    <3>2. CASE ~LastOut
      BY <1>6, <1>t, <2>1, <3>2, Zenon DEF end_op, OpType, wakeup
    <3> QED BY <3>1, <3>2, Zenon
  <2> QED BY <1>a, <1>b, <2>0, <2>1, <2>2, Zenon
<1>7. ASSUME NEW p \in Proc, pc[p] \in CommitPc
      PROVE  /\ boot = "up" /\ \A b \in Block : holder[b] = None
             /\ \A q \in Proc : pc[q] \in CommitPc => q = p
  BY <1>0, <1>t, <1>7, BusyMeansUp, Zenon DEF ControlInv, CommitPc, Ops, BufType
<1>8. ASSUME NEW p \in Proc, write_log(p) PROVE BufferInv'
  <2>1. /\ pc[p] = "write_log"
        /\ pc' = pc \/ pc' = [pc EXCEPT ![p] = "commit"]
        /\ cache' = [cache EXCEPT ![lh[tail + 1]] = Contents(lh[tail + 1])]
        /\ UNCHANGED <<disk, pin, holder, lh, boot>>
    BY <1>8 DEF write_log
  <2>2. \A q \in Proc : pc[q] \notin {"install", "erase"}
    BY <1>7, <2>1, Zenon DEF CommitPc
  <2>3. \A q \in Proc : pc'[q] \notin {"install", "erase"}
    BY <1>t, <2>1, <2>2, Zenon DEF OpType
  <2>4. (\A i : Unwritten(i)) /\ (\A i : Unwritten(i)')
    BY <1>a, <2>2, <2>3, Zenon
  <2>5. lh[tail + 1] \in Block
    BY <1>0, <1>t, <2>1 DEF HeaderInv, LogType, CtlType
  <2> QED BY <1>0, <1>t, <2>1, <2>4, <2>5, Zenon DEF BufferInv, Contents, BufType, DiskType
<1>9. ASSUME NEW p \in Proc, write_head(p) PROVE BufferInv'
  <2>1. /\ pc[p] = "commit" /\ pc' = [pc EXCEPT ![p] = "install"]
        /\ UNCHANGED <<disk, cache, pin, holder, lh, boot, tail>>
    BY <1>9, Zenon DEF write_head
  <2>2. tail = 0 /\ \A q \in Proc : pc[q] \in CommitPc => q = p
    BY <1>0, <1>7, <2>1, Zenon DEF HeaderInv, CommitPc
  <2>3. \A i \in 1..Len(lh) : Unwritten(i) /\ Unwritten(i)'
    BY <1>t, <2>1, <2>2 DEF Unwritten, CommitPc, OpType, LogType
  <2> QED BY <1>0, <2>1, <2>3, Zenon DEF BufferInv
<1>10. ASSUME NEW p \in Proc, install_trans(p) PROVE BufferInv'
  <2> DEFINE b == lh[tail + 1]
  <2>1. /\ pc[p] = "install" /\ pin' = [pin EXCEPT ![b] = @ - 1]
        /\ cache' = [cache EXCEPT ![b] = logblk[tail + 1]]
        /\ disk' = [disk EXCEPT ![b] = logblk[tail + 1]]
        /\ UNCHANGED <<holder, lh, boot>>
    BY <1>10, Zenon DEF install_trans, InstallBlock
  <2>2. /\ tail + 1 \in 1..Len(lh) /\ b \in Block /\ pin[b] = 1 /\ boot = "up"
    BY <2>1, NextInstallPinned, Zenon
  <2>3. \A q \in Proc : pc[q] \in CommitPc => q = p
    BY <1>7, <2>1, Zenon DEF CommitPc
  <2>4. \A i \in 1..Len(lh) : Unwritten(i) <=> i > tail
    BY <1>t, <2>1, <2>3, Zenon DEF Unwritten, CommitPc, CtlType
  <2>5. \A i \in 1..Len(lh) : Unwritten(i)' <=> i > tail + 1
    <3>1. CASE tail + 1 < Len(lh)
      <4>1. pc' = pc /\ tail' = tail + 1
        BY <1>10, <1>t, <3>1 DEF install_trans, LogType, CtlType
      <4> QED BY <1>t, <2>1, <2>3, <4>1, Zenon DEF Unwritten, CommitPc, CtlType
    <3>2. CASE tail + 1 = Len(lh)
      <4>1. pc' = [pc EXCEPT ![p] = "erase"]
        BY <1>10, <1>t, <3>2 DEF install_trans, LogType, CtlType
      <4>2. \A i \in 1..Len(lh) : ~(i > tail + 1)
        BY <1>t, <3>2 DEF LogType, CtlType
      <4>3. pc'[p] = "erase"
        BY <1>t, <4>1, Zenon DEF OpType
      <4> QED BY <4>2, <4>3, Zenon DEF Unwritten
    <3> QED BY <1>10, <3>1, <3>2, Zenon DEF install_trans
  <2>6. \A i \in 1..Len(lh) : i # tail + 1 => lh[i] # b
    BY <1>0, <2>2, Zenon DEF HeaderInv
  <2>7. pin'[b] = 0 /\ \A c \in Block : c # b => pin'[c] = pin[c]
    BY <1>t, <2>1, <2>2 DEF BufType
  <2>8. /\ cache'[b] = disk'[b] /\ cache'[b] # None
        /\ \A c \in Block : c # b => cache'[c] = cache[c] /\ disk'[c] = disk[c]
    BY <1>t, <2>1, <2>2 DEF BufType, DiskType, LogType
  <2>9. \A i \in 1..Len(lh) : Unwritten(i)' => pin'[lh[i]] = 1
    <3> SUFFICES ASSUME NEW i \in 1..Len(lh), Unwritten(i)'
                 PROVE  pin'[lh[i]] = 1
      OBVIOUS
    <3>1. i > tail + 1
      BY <2>5
    <3>2. i > tail /\ i # tail + 1
      BY <1>t, <3>1 DEF LogType, CtlType
    <3>3. Unwritten(i)
      BY <2>4, <3>2, Zenon
    <3>4. pin[lh[i]] = 1
      BY <1>0, <2>2, <3>3, Zenon DEF BufferInv
    <3>5. lh[i] \in Block /\ lh[i] # b
      BY <1>t, <2>6, <3>2 DEF LogType
    <3> QED BY <2>7, <3>4, <3>5, Zenon
  <2>10. \A c \in Block : pin'[c] # 0 =>
           pin'[c] = 1 /\ \E i \in 1..Len(lh) : lh[i] = c /\ Unwritten(i)'
    <3> SUFFICES ASSUME NEW c \in Block, pin'[c] # 0
                 PROVE  pin'[c] = 1 /\ \E i \in 1..Len(lh) : lh[i] = c /\ Unwritten(i)'
      BY Zenon
    <3>1. c # b
      BY <2>7, Zenon
    <3>2. PICK i \in 1..Len(lh) : pin[c] = 1 /\ lh[i] = c /\ Unwritten(i)
      BY <1>0, <2>7, <3>1, Zenon DEF BufferInv
    <3>3. i > tail /\ i # tail + 1
      BY <2>2, <2>4, <3>1, <3>2, Zenon
    <3>4. i > tail + 1
      BY <1>t, <3>3 DEF LogType, CtlType
    <3> QED BY <2>5, <2>7, <3>1, <3>2, <3>4, Zenon
  <2>11. /\ boot' = "up" /\ lh' = lh /\ holder' = holder
    BY <2>1, <2>2, Zenon
  <2>12. \A c \in Block : pin'[c] # 0 \/ holder'[c] # None => cache'[c] # None
    BY <1>0, <2>7, <2>8, <2>11, Zenon DEF BufferInv
  <2>13. \A c \in Block : pin'[c] = 0 /\ holder'[c] = None /\ cache'[c] # None =>
           cache'[c] = disk'[c]
    BY <1>0, <2>7, <2>8, <2>11, Zenon DEF BufferInv
  <2> QED BY <2>9, <2>10, <2>11, <2>12, <2>13, Zenon DEF BufferInv
<1>11. ASSUME NEW p \in Proc, erase(p) PROVE BufferInv'
  <2>1. /\ pc[p] = "erase" /\ lh' = <<>>
        /\ UNCHANGED <<disk, cache, pin, holder, boot>>
    BY <1>11, Zenon DEF erase, Erase
  <2>2. \A b \in Block : pin[b] = 0
    BY <1>0, <2>1, Zenon DEF BufferInv, Unwritten
  <2> QED BY <1>0, <2>1, <2>2 DEF BufferInv
<1>12. ASSUME NEW p \in Proc, CommitDone(p) PROVE BufferInv'
  <2>1. /\ pc[p] = "done" /\ pc' = [wakeup(pc) EXCEPT ![p] = "idle"]
        /\ UNCHANGED <<disk, cache, pin, holder, lh, boot>>
    BY <1>12, Zenon DEF CommitDone
  <2>2. \A q \in Proc : pc[q] \notin {"install", "erase"}
    BY <1>7, <2>1, Zenon DEF CommitPc
  <2>3. \A q \in Proc : pc'[q] \notin {"install", "erase"}
    BY <1>t, <2>1, <2>2, Zenon DEF OpType, wakeup
  <2> QED BY <1>a, <1>b, <2>1, <2>2, <2>3, Zenon
<1>13. ASSUME read_head PROVE BufferInv'
  BY <1>0, <1>13, Zenon DEF read_head, BufferInv
<1>14. ASSUME RecoverInstall PROVE BufferInv'
  <2>1. lh[tail + 1] \in Block /\ tail + 1 \in 1..LOGBLOCKS
    BY <1>14, <1>t DEF RecoverInstall, LogType, CtlType
  <2> QED BY <1>0, <1>t, <1>14, <2>1, Zenon
          DEF RecoverInstall, InstallBlock, BufferInv, BufType, DiskType
<1>15. ASSUME RecoverErase PROVE BufferInv'
  <2>1. boot # "up" /\ lh' = <<>> /\ UNCHANGED <<disk, cache, pin, holder>>
    BY <1>15, Zenon DEF RecoverErase, Recovered, Erase
  <2>2. \A b \in Block : pin[b] = 0
    BY <1>0, <2>1, Zenon DEF BufferInv
  <2>3. \A b \in Block : pin'[b] = 0
    BY <2>1, <2>2, Zenon
  <2>4. \A b \in Block :
          /\ holder'[b] # None => cache'[b] # None
          /\ holder'[b] = None /\ cache'[b] # None => cache'[b] = disk'[b]
    BY <1>0, <2>1, <2>2 DEF BufferInv
  <2>5. Len(lh') = 0
    BY <2>1, Zenon
  <2> QED BY <2>3, <2>4, <2>5 DEF BufferInv
<1>16. ASSUME Crash PROVE BufferInv'
  BY <1>16, Zenon DEF Crash, BufferInv
<1>17. ASSUME UNCHANGED vars PROVE BufferInv'
  BY <1>b, <1>c, <1>17 DEF vars
<1> QED
  BY <1>1, <1>2, <1>3, <1>4, <1>5, <1>6, <1>8, <1>9, <1>10, <1>11, <1>12,
     <1>13, <1>14, <1>15, <1>16, <1>17 DEF Next, CommitStep, RecoverStep

\* The copies in the log area agree with the buffers until they are installed
\* and with the home blocks afterwards.
LEMMA CopyInvStep ==
  ASSUME LogInv, [Next]_vars
  PROVE  CopyInv'
<1> USE LogConstants DEF diskVars, bufVars, logVars, opVars, ctlVars
<1>0. CopyInv /\ BufferInv /\ HeaderInv /\ ControlInv /\ TypeOK
  BY DEF LogInv
<1>t. BufType /\ OpType /\ LogType /\ CtlType /\ DiskType
  BY <1>0, Zenon DEF TypeOK
\* While nobody commits, CopyInv speaks only of recovery.
<1>a. ASSUME \A q \in Proc : pc'[q] \notin {"write_log", "commit", "install", "erase"},
             boot' # "install"
      PROVE  CopyInv'
  BY <1>a, Zenon DEF CopyInv
<1>b. ASSUME NEW p \in Proc, pc[p] = "op"
      PROVE  boot = "up" /\ \A q \in Proc : pc[q] \notin CommitPc
  BY <1>0, <1>b, BusyMeansUp, Zenon DEF ControlInv, Ops
<1>7. ASSUME NEW p \in Proc, pc[p] \in CommitPc
      PROVE  /\ boot = "up" /\ \A b \in Block : holder[b] = None
             /\ \A q \in Proc : pc[q] \in CommitPc => q = p
  BY <1>0, <1>t, <1>7, BusyMeansUp, Zenon DEF ControlInv, CommitPc, Ops, BufType
<1>1. ASSUME NEW b \in Block, bread(b) PROVE CopyInv'
  <2>1. \A c \in Block : cache[c] # None => cache'[c] = cache[c]
    BY <1>1, <1>t, Zenon DEF bread, BufType
  <2>2. UNCHANGED <<disk, logblk, lh, pc, tail, boot>> /\ boot = "up"
    BY <1>1, Zenon DEF bread
  <2>3. \A p \in Proc, i \in 1..Len(lh) :
          /\ pc[p] \in {"write_log", "commit"} => cache[lh[i]] # None
          /\ pc[p] = "install" /\ i > tail => cache[lh[i]] # None
    <3> SUFFICES ASSUME NEW p \in Proc, NEW i \in 1..Len(lh),
                        pc[p] \in {"write_log", "commit"} \/
                        (pc[p] = "install" /\ i > tail)
                 PROVE  cache[lh[i]] # None
      BY Zenon
    <3>1. Unwritten(i)
      BY <1>7, <1>t, Zenon DEF Unwritten, CommitPc, CtlType
    <3>2. lh[i] \in Block
      BY <1>t DEF LogType
    <3>3. pin[lh[i]] = 1
      BY <1>0, <2>2, <3>1, Zenon DEF BufferInv
    <3>4. pin[lh[i]] # 0
      BY <3>3
    <3> QED BY <1>0, <3>2, <3>4, Zenon DEF BufferInv
  <2>4. \A i \in 1..Len(lh) : lh[i] \in Block
    BY <1>t DEF LogType
  <2> QED BY <1>0, <2>1, <2>2, <2>3, <2>4 DEF CopyInv
<1>2. ASSUME NEW b \in Block, Recycle(b) PROVE CopyInv'
  <2>1. /\ pin[b] = 0 /\ boot = "up" /\ cache' = [cache EXCEPT ![b] = None]
        /\ UNCHANGED <<disk, logblk, lh, pc, tail, boot>>
    BY <1>2, Zenon DEF Recycle, Recyclable
  <2>2. \A p \in Proc, i \in 1..Len(lh) :
          /\ pc[p] \in {"write_log", "commit"} => lh[i] # b
          /\ pc[p] = "install" /\ i > tail => lh[i] # b
    <3> SUFFICES ASSUME NEW p \in Proc, NEW i \in 1..Len(lh),
                        pc[p] \in {"write_log", "commit"} \/
                        (pc[p] = "install" /\ i > tail)
                 PROVE  lh[i] # b
      BY Zenon
    <3>1. Unwritten(i)
      BY <1>7, <1>t, Zenon DEF Unwritten, CommitPc, CtlType
    <3> QED BY <1>0, <2>1, <3>1 DEF BufferInv
  <2>3. \A i \in 1..Len(lh) : lh[i] \in Block
    BY <1>t DEF LogType
  <2> QED BY <1>0, <1>t, <2>1, <2>2, <2>3 DEF CopyInv, BufType
<1>3. ASSUME NEW p \in Proc, begin_op(p) PROVE CopyInv'
  <2>1. /\ UNCHANGED <<disk, logblk, cache, lh, boot, tail>>
        /\ pc' = [pc EXCEPT ![p] = "op"] \/ pc' = [pc EXCEPT ![p] = "sleep"]
    BY <1>3, Zenon DEF begin_op
  <2> QED BY <1>0, <1>t, <2>1 DEF CopyInv, OpType
<1>4. ASSUME NEW p \in Proc, NEW b \in Block, NEW v \in Val, Modify(p, b, v)
      PROVE CopyInv'
  BY <1>4, <1>a, <1>b, Zenon DEF Modify, CommitPc
<1>5. ASSUME NEW p \in Proc, NEW b \in Block, log_write(p, b) PROVE CopyInv'
  BY <1>5, <1>a, <1>b, Zenon DEF log_write, CommitPc
<1>6. ASSUME NEW p \in Proc, end_op(p) PROVE CopyInv'
  <2>0. pc[p] = "op" /\ UNCHANGED <<disk, logblk, cache, lh, boot>>
    BY <1>6, Zenon DEF end_op
  <2>1. boot = "up" /\ \A q \in Proc : pc[q] \notin CommitPc
    BY <1>b, <2>0, Zenon
  <2>2. CASE LastOut
    <3>1. /\ tail' = 0
          /\ pc' = [pc EXCEPT ![p] = IF lh = <<>> THEN "done" ELSE "write_log"]
      BY <1>6, <2>2, Zenon DEF end_op
    <3> QED BY <1>t, <2>0, <2>1, <3>1 DEF CopyInv, OpType, CommitPc
  <2>3. CASE ~LastOut
    <3>1. pc' = [wakeup(pc) EXCEPT ![p] = "idle"]
      BY <1>6, <2>3, Zenon DEF end_op
    <3> QED BY <1>a, <1>t, <2>0, <2>1, <3>1, Zenon DEF wakeup, OpType, CommitPc
  <2> QED BY <2>2, <2>3
<1>8. ASSUME NEW p \in Proc, write_log(p) PROVE CopyInv'
  <2> DEFINE b == lh[tail + 1]
  <2>1. /\ pc[p] = "write_log"
        /\ cache' = [cache EXCEPT ![b] = Contents(b)]
        /\ logblk' = [logblk EXCEPT ![tail + 1] = Contents(b)]
        /\ \/ tail + 1 < Len(lh) /\ tail' = tail + 1 /\ pc' = pc
           \/ tail + 1 = Len(lh) /\ tail' = 0 /\ pc' = [pc EXCEPT ![p] = "commit"]
        /\ UNCHANGED <<disk, lh, boot>>
    BY <1>8, Zenon DEF write_log
  <2>2. boot = "up" /\ \A q \in Proc : pc[q] \in CommitPc => q = p
    BY <1>7, <2>1, Zenon DEF CommitPc
  <2>3. tail + 1 \in 1..Len(lh) /\ b \in Block /\ tail + 1 \in 1..LOGBLOCKS
    BY <1>0, <1>t, <2>1 DEF HeaderInv, LogType, CtlType
  <2>4. \A i \in 1..Len(lh) : i # tail + 1 => lh[i] # b /\ lh[i] \in Block
    BY <1>0, <1>t, <2>3 DEF HeaderInv, LogType
  <2>5. \A i \in 1..tail : logblk[i] = cache[lh[i]]
    BY <1>0, <1>t, <2>1, <2>3 DEF CopyInv, LogType, CtlType
  <2>6. \A i \in 1..(tail + 1) : logblk'[i] = cache'[lh[i]]
    BY <1>t, <2>1, <2>3, <2>4, <2>5 DEF BufType, DiskType, CtlType, LogType
  <2>7. CASE tail + 1 < Len(lh)
    <3>1. tail' = tail + 1 /\ pc' = pc
      BY <1>t, <2>1, <2>7 DEF LogType, CtlType
    <3> QED BY <1>t, <2>1, <2>2, <2>6, <3>1 DEF CopyInv, CommitPc, CtlType
  <2>8. CASE tail + 1 = Len(lh)
    <3>1. pc' = [pc EXCEPT ![p] = "commit"]
      BY <1>t, <2>1, <2>8 DEF LogType, CtlType
    <3> QED BY <1>t, <2>1, <2>2, <2>6, <2>8, <3>1, Zenon DEF CopyInv, CommitPc, OpType
  <2> QED BY <2>1, <2>7, <2>8, Zenon
<1>9. ASSUME NEW p \in Proc, write_head(p) PROVE CopyInv'
  <2>1. /\ pc[p] = "commit" /\ pc' = [pc EXCEPT ![p] = "install"]
        /\ UNCHANGED <<disk, logblk, cache, lh, boot, tail>>
    BY <1>9, Zenon DEF write_head
  <2>2. boot = "up" /\ \A q \in Proc : pc[q] \in CommitPc => q = p
    BY <1>7, <2>1, Zenon DEF CommitPc
  <2>3. tail = 0
    BY <1>0, <2>1, Zenon DEF HeaderInv
  <2> QED BY <1>0, <1>t, <2>1, <2>2, <2>3 DEF CopyInv, CommitPc, OpType, LogType
<1>10. ASSUME NEW p \in Proc, install_trans(p) PROVE CopyInv'
  <2> DEFINE b == lh[tail + 1]
  <2>1. /\ pc[p] = "install"
        /\ cache' = [cache EXCEPT ![b] = logblk[tail + 1]]
        /\ disk' = [disk EXCEPT ![b] = logblk[tail + 1]]
        /\ \/ tail + 1 < Len(lh) /\ tail' = tail + 1 /\ pc' = pc
           \/ tail + 1 = Len(lh) /\ tail' = 0 /\ pc' = [pc EXCEPT ![p] = "erase"]
        /\ UNCHANGED <<logblk, lh, boot>>
    BY <1>10, Zenon DEF install_trans, InstallBlock
  <2>2. boot = "up" /\ \A q \in Proc : pc[q] \in CommitPc => q = p
    BY <1>7, <2>1, Zenon DEF CommitPc
  <2>3. tail + 1 \in 1..Len(lh) /\ b \in Block
    BY <2>1, NextInstallPinned, Zenon
  <2>4. \A i \in 1..Len(lh) : i # tail + 1 => lh[i] # b /\ lh[i] \in Block
    BY <1>0, <1>t, <2>3 DEF HeaderInv, LogType
  <2>5. /\ \A i \in 1..tail : logblk[i] = disk[lh[i]]
        /\ \A i \in 1..Len(lh) : i > tail => logblk[i] = cache[lh[i]]
    BY <1>0, <1>t, <2>1, <2>3 DEF CopyInv, LogType, CtlType
  <2>a. \A i \in 1..(tail + 1) : logblk'[i] = disk'[lh[i]]
    BY <1>t, <2>1, <2>3, <2>4, <2>5 DEF DiskType, CtlType, LogType
  <2>b. \A i \in 1..Len(lh) : i > tail + 1 => logblk'[i] = cache'[lh[i]]
    BY <1>t, <2>1, <2>3, <2>4, <2>5 DEF BufType, CtlType, LogType
  <2>6. /\ \A i \in 1..(tail + 1) : logblk'[i] = disk'[lh[i]]
        /\ \A i \in 1..Len(lh) : i > tail + 1 => logblk'[i] = cache'[lh[i]]
    BY <2>a, <2>b, Zenon
  <2>7. CASE tail + 1 < Len(lh)
    <3>1. tail' = tail + 1 /\ pc' = pc
      BY <1>t, <2>1, <2>7 DEF LogType, CtlType
    <3> QED BY <1>t, <2>1, <2>2, <2>6, <3>1 DEF CopyInv, CommitPc, CtlType
  <2>8. CASE tail + 1 = Len(lh)
    <3>1. pc' = [pc EXCEPT ![p] = "erase"]
      BY <1>t, <2>1, <2>8 DEF LogType, CtlType
    <3> QED BY <1>t, <2>1, <2>2, <2>6, <2>8, <3>1 DEF CopyInv, CommitPc, OpType
  <2> QED BY <2>1, <2>7, <2>8, Zenon
<1>11. ASSUME NEW p \in Proc, erase(p) PROVE CopyInv'
  <2>1. /\ pc[p] = "erase" /\ pc' = [pc EXCEPT ![p] = "done"] /\ boot' = boot
    BY <1>11, Zenon DEF erase
  <2>2. boot = "up" /\ \A q \in Proc : pc[q] \in CommitPc => q = p
    BY <1>7, <2>1, Zenon DEF CommitPc
  <2> QED BY <1>a, <1>t, <2>1, <2>2, Zenon DEF CommitPc, OpType
<1>12. ASSUME NEW p \in Proc, CommitDone(p) PROVE CopyInv'
  <2>1. /\ pc[p] = "done" /\ pc' = [wakeup(pc) EXCEPT ![p] = "idle"] /\ boot' = boot
    BY <1>12, Zenon DEF CommitDone
  <2>2. boot = "up" /\ \A q \in Proc : pc[q] \in CommitPc => q = p
    BY <1>7, <2>1, Zenon DEF CommitPc
  <2> QED BY <1>a, <1>t, <2>1, <2>2 DEF CommitPc, OpType, wakeup
<1>13. ASSUME boot # "up" PROVE \A q \in Proc : pc[q] = "idle"
  BY <1>0, <1>13, Zenon DEF ControlInv
<1>14. ASSUME read_head PROVE CopyInv'
  <2>1. /\ boot = "read_head" /\ boot' = "install"
        /\ UNCHANGED <<disk, logblk, pc, tail>>
    BY <1>14, Zenon DEF read_head
  <2>2. tail' = 0
    BY <1>0, <2>1, Zenon DEF HeaderInv
  <2>3. \A q \in Proc : pc'[q] = "idle"
    BY <1>13, <2>1, Zenon
  <2> QED BY <2>2, <2>3 DEF CopyInv
<1>15. ASSUME RecoverInstall PROVE CopyInv'
  <2> DEFINE b == lh[tail + 1]
  <2>1. /\ boot = "install" /\ tail < Len(lh) /\ tail' = tail + 1
        /\ disk' = [disk EXCEPT ![b] = logblk[tail + 1]]
        /\ UNCHANGED <<logblk, lh, boot, pc>>
    BY <1>15, Zenon DEF RecoverInstall, InstallBlock
  <2>2. tail + 1 \in 1..Len(lh) /\ b \in Block
    BY <1>t, <2>1 DEF LogType, CtlType
  <2>3. \A i \in 1..tail : lh[i] # b /\ lh[i] \in Block /\ logblk[i] = disk[lh[i]]
    BY <1>0, <1>t, <2>1, <2>2 DEF HeaderInv, CopyInv, LogType, CtlType
  <2>4. \A i \in 1..tail' : logblk'[i] = disk'[lh'[i]]
    BY <1>t, <2>1, <2>2, <2>3 DEF DiskType, CtlType
  <2> QED BY <1>13, <2>1, <2>4, Zenon DEF CopyInv
<1>16. ASSUME RecoverErase PROVE CopyInv'
  BY <1>a, <1>13, <1>16, Zenon DEF RecoverErase, Recovered
<1>17. ASSUME Crash PROVE CopyInv'
  BY <1>a, <1>17 DEF Crash
<1>18. ASSUME UNCHANGED vars PROVE CopyInv'
  BY <1>0, <1>18, Zenon DEF vars, CopyInv
<1> QED
  BY <1>1, <1>2, <1>3, <1>4, <1>5, <1>6, <1>8, <1>9, <1>10, <1>11, <1>12,
     <1>14, <1>15, <1>16, <1>17, <1>18 DEF Next, CommitStep, RecoverStep

(***************************************************************************)
(* Counting.  What the proofs use of the theory of finite sets; the last     *)
(* section takes it from the library.                                       *)
(***************************************************************************)

SetFacts ==
  /\ IsFiniteSet({}) /\ Cardinality({}) = 0
  /\ \A S : IsFiniteSet(S) => Cardinality(S) \in Nat /\ (Cardinality(S) = 0 <=> S = {})
  /\ \A S, T : IsFiniteSet(S) /\ T \subseteq S
       => IsFiniteSet(T) /\ Cardinality(T) <= Cardinality(S)
  /\ \A S, x : IsFiniteSet(S)
       => /\ IsFiniteSet(S \cup {x})
          /\ Cardinality(S \cup {x}) = IF x \in S THEN Cardinality(S) ELSE Cardinality(S) + 1
  /\ \A S, x : IsFiniteSet(S)
       => /\ IsFiniteSet(S \ {x})
          /\ Cardinality(S \ {x}) = IF x \in S THEN Cardinality(S) - 1 ELSE Cardinality(S)
  /\ \A S, T : IsFiniteSet(S) /\ IsFiniteSet(T)
       => /\ IsFiniteSet(S \X T)
          /\ Cardinality(S \X T) = Cardinality(S) * Cardinality(T)
  /\ \A n \in Nat : IsFiniteSet(1..n) /\ Cardinality(1..n) = n

\* The empty set has size 0 and is the only finite set that has.
LEMMA EmptyCount ==
  ASSUME SetFacts
  PROVE  /\ IsFiniteSet({}) /\ Cardinality({}) = 0
         /\ \A S : IsFiniteSet(S) => (Cardinality(S) = 0 <=> S = {})
BY Zenon DEF SetFacts

\* The size of a finite set is a natural number.
LEMMA CountNat ==
  ASSUME SetFacts, NEW S, IsFiniteSet(S)
  PROVE  Cardinality(S) \in Nat
BY Zenon DEF SetFacts

\* A part of a finite set is finite and not larger.
LEMMA SubsetCount ==
  ASSUME SetFacts, NEW S, IsFiniteSet(S), NEW T, T \subseteq S
  PROVE  IsFiniteSet(T) /\ Cardinality(T) <= Cardinality(S)
BY Zenon DEF SetFacts

\* One element more.
LEMMA AddCount ==
  ASSUME SetFacts, NEW S, NEW x, IsFiniteSet(S)
  PROVE  /\ IsFiniteSet(S \cup {x})
         /\ Cardinality(S \cup {x}) = IF x \in S THEN Cardinality(S) ELSE Cardinality(S) + 1
BY Zenon DEF SetFacts

\* One element less.
LEMMA RemoveCount ==
  ASSUME SetFacts, NEW S, NEW x, IsFiniteSet(S)
  PROVE  /\ IsFiniteSet(S \ {x})
         /\ Cardinality(S \ {x}) = IF x \in S THEN Cardinality(S) - 1 ELSE Cardinality(S)
BY Zenon DEF SetFacts

\* Pairs.
LEMMA ProductCount ==
  ASSUME SetFacts, NEW S, IsFiniteSet(S), NEW T, IsFiniteSet(T)
  PROVE  IsFiniteSet(S \X T) /\ Cardinality(S \X T) = Cardinality(S) * Cardinality(T)
<1>1. \A U, V : IsFiniteSet(U) /\ IsFiniteSet(V)
        => /\ IsFiniteSet(U \X V)
           /\ Cardinality(U \X V) = Cardinality(U) * Cardinality(V)
  BY Zenon DEF SetFacts
<1> QED BY <1>1, Zenon

\* The set of open operations is finite, and outstanding counts it.
LEMMA OpsFinite ==
  ASSUME SetFacts, LogInv
  PROVE  /\ IsFiniteSet(Ops)
         /\ outstanding = Cardinality(Ops)
         /\ outstanding = 0 <=> Ops = {}
         /\ \A p \in Ops : outstanding >= 1
<1>1. IsFiniteSet(Ops)
  BY LogConstants, SubsetCount DEF Ops
<1>2. outstanding = Cardinality(Ops) /\ outstanding \in Nat
  BY DEF LogInv, ControlInv, TypeOK, LogType
<1>3. Cardinality(Ops) = 0 <=> Ops = {}
  BY <1>1, EmptyCount
<1> QED BY <1>1, <1>2, <1>3

\* A fresh disk with an empty header satisfies the invariant.
LEMMA InitLogInv ==
  ASSUME SetFacts, Init
  PROVE  LogInv
<1> USE LogConstants DEF Init
<1>1. TypeOK
  <2>1. DiskType BY DEF DiskType
  <2>2. BufType BY DEF BufType
  <2>3. LogType
    <3>1. committing \in BOOLEAN
      BY Zenon
    <3>2. lh \in Seq(Block) /\ Len(lh) <= LOGBLOCKS /\ outstanding \in Nat
      OBVIOUS
    <3> QED BY <3>1, <3>2 DEF LogType
  <2>4. OpType BY DEF OpType, Pc
  <2>5. CtlType BY DEF CtlType, BootPc
  <2> QED BY <2>1, <2>2, <2>3, <2>4, <2>5 DEF TypeOK
<1>2. ControlInv
  <2>1. Ops = {}
    BY DEF Ops
  <2>2. Cardinality(Ops) = 0
    BY <2>1, EmptyCount
  <2> QED BY <2>1, <2>2 DEF ControlInv, CommitPc
<1>3. HeaderInv
  BY DEF HeaderInv
<1>4. BufferInv
  BY DEF BufferInv, Unwritten
<1>5. CopyInv
  BY DEF CopyInv
<1> QED BY <1>1, <1>2, <1>3, <1>4, <1>5 DEF LogInv

\* outstanding counts the open operations and at most one thread commits,
\* which keeps begin_op() out.
LEMMA ControlInvStep ==
  ASSUME SetFacts, LogInv, [Next]_vars
  PROVE  ControlInv'
<1> USE LogConstants DEF diskVars, bufVars, logVars, opVars, ctlVars
<1>0. ControlInv /\ OpType /\ BufType /\ LogType
  BY Zenon DEF LogInv, TypeOK
<1>a. ASSUME UNCHANGED <<pc, outstanding, committing, boot, holder>>
      PROVE  ControlInv'
  BY <1>0, <1>a DEF ControlInv, Ops
<1>1. ASSUME NEW b \in Block, bread(b) PROVE ControlInv'
  BY <1>1, <1>a DEF bread
<1>2. ASSUME NEW b \in Block, Recycle(b) PROVE ControlInv'
  BY <1>2, <1>a DEF Recycle
<1>3. ASSUME NEW p \in Proc, begin_op(p) PROVE ControlInv'
  <2>1. CASE MayBegin
    <3>1. /\ ~committing /\ boot = "up" /\ outstanding' = outstanding + 1
          /\ pc' = [pc EXCEPT ![p] = "op"] /\ pc[p] # "op"
          /\ UNCHANGED <<committing, boot, holder>>
      BY <1>3, <2>1 DEF begin_op, MayBegin
    <3>2. Ops' = Ops \cup {p} /\ p \notin Ops
      BY <1>0, <3>1 DEF Ops, OpType
    <3>3. outstanding' = Cardinality(Ops')
      BY <3>1, <3>2, OpsFinite, AddCount, Zenon
    <3> QED BY <1>0, <3>1, <3>3 DEF ControlInv, OpType, BufType, CommitPc, Ops
  <2>2. CASE ~MayBegin
    <3>1. /\ pc[p] \in {"idle", "retry"} /\ pc' = [pc EXCEPT ![p] = "sleep"]
          /\ boot = "up" /\ UNCHANGED <<outstanding, committing, boot, holder>>
      BY <1>3, <2>2 DEF begin_op
    <3>2. Ops' = Ops
      BY <1>0, <3>1, Zenon DEF Ops, OpType
    <3> QED BY <1>0, <3>1, <3>2 DEF ControlInv, OpType, BufType, CommitPc
  <2> QED BY <2>1, <2>2
<1>4. ASSUME NEW p \in Proc, NEW b \in Block, NEW v \in Val, Modify(p, b, v)
      PROVE ControlInv'
  BY <1>0, <1>4 DEF Modify, ControlInv, BufType, Ops
<1>5. ASSUME NEW p \in Proc, NEW b \in Block, log_write(p, b) PROVE ControlInv'
  BY <1>0, <1>5, Zenon DEF log_write, ControlInv, BufType, Ops
<1>6. ASSUME NEW p \in Proc, end_op(p) PROVE ControlInv'
  <2>0. /\ pc[p] = "op" /\ ~committing /\ outstanding' = outstanding - 1
        /\ \A b \in Block : holder[b] # p
        /\ UNCHANGED <<holder, boot>>
    BY <1>6 DEF end_op
  <2>1. boot = "up"
    BY <2>0, BusyMeansUp
  <2>2. ASSUME Ops' = Ops \ {p} PROVE outstanding' = Cardinality(Ops')
    <3>1. p \in Ops
      BY <2>0 DEF Ops
    <3> QED BY <2>0, <2>2, <3>1, OpsFinite, RemoveCount, Zenon
  <2>3. CASE LastOut
    <3>1. /\ committing' = TRUE
          /\ pc' = [pc EXCEPT ![p] = IF lh = <<>> THEN "done" ELSE "write_log"]
      BY <1>6, <2>3 DEF end_op
    <3>2. Ops' = Ops \ {p}
      BY <1>0, <2>0, <3>1 DEF Ops, OpType
    <3>3. \A q \in Ops : q = p
      <4>1. IsFiniteSet(Ops \ {p}) /\ Cardinality(Ops \ {p}) = 0
        BY <2>0, <2>2, <2>3, <3>2, OpsFinite, RemoveCount DEF LastOut
      <4> QED BY <4>1, EmptyCount
    <3>4. Ops' = {}
      BY <3>2, <3>3
    <3>5. pc'[p] \in CommitPc /\ \A q \in Proc : pc'[q] \in CommitPc => q = p
      BY <1>0, <2>0, <3>1, Zenon DEF ControlInv, OpType, CommitPc
    <3>6. \A b \in Block : holder'[b] = None
      BY <1>0, <2>0, <3>3, Zenon DEF ControlInv, BufType, Ops
    <3> QED BY <2>0, <2>1, <2>2, <3>1, <3>2, <3>4, <3>5, <3>6, Zenon DEF ControlInv
  <2>4. CASE ~LastOut
    <3>1. pc' = [wakeup(pc) EXCEPT ![p] = "idle"] /\ UNCHANGED committing
      BY <1>6, <2>4 DEF end_op
    <3>2. \A q \in Proc : /\ (pc'[q] = "op") = (pc[q] = "op" /\ q # p)
                          /\ (pc'[q] \in CommitPc) = (pc[q] \in CommitPc)
      BY <1>0, <2>0, <3>1 DEF wakeup, OpType, CommitPc
    <3>3. Ops' = Ops \ {p}
      BY <3>2, Zenon DEF Ops
    <3> QED BY <1>0, <2>0, <2>1, <2>2, <3>1, <3>2, <3>3 DEF ControlInv, BufType
  <2> QED BY <2>3, <2>4
<1>7. ASSUME NEW p \in Proc,
             pc[p] \in CommitPc, pc' = [pc EXCEPT ![p] = pc'[p]],
             pc'[p] \in CommitPc,
             UNCHANGED <<outstanding, committing, boot, holder>>
      PROVE  ControlInv'
  <2>1. Ops' = Ops
    BY <1>0, <1>7, Zenon DEF Ops, OpType, CommitPc
  <2> QED BY <1>0, <1>7, <2>1 DEF ControlInv, OpType, BufType, CommitPc
<1>8. ASSUME NEW p \in Proc, write_log(p) PROVE ControlInv'
  BY <1>0, <1>7, <1>8 DEF write_log, CommitPc, OpType
<1>9. ASSUME NEW p \in Proc, write_head(p) PROVE ControlInv'
  BY <1>0, <1>7, <1>9, Zenon DEF write_head, CommitPc, OpType
<1>10. ASSUME NEW p \in Proc, install_trans(p) PROVE ControlInv'
  BY <1>0, <1>7, <1>10, Zenon DEF install_trans, CommitPc, OpType
<1>11. ASSUME NEW p \in Proc, erase(p) PROVE ControlInv'
  BY <1>0, <1>7, <1>11, Zenon DEF erase, CommitPc, OpType
<1>12. ASSUME NEW p \in Proc, CommitDone(p) PROVE ControlInv'
  <2>1. /\ pc[p] = "done" /\ committing' = FALSE
        /\ pc' = [wakeup(pc) EXCEPT ![p] = "idle"]
        /\ UNCHANGED <<outstanding, boot, holder>>
    BY <1>12, Zenon DEF CommitDone
  <2>2. \A q \in Proc : (pc'[q] = "op") = (pc[q] = "op")
    BY <1>0, <2>1, Zenon DEF wakeup, OpType
  <2>3. Ops' = Ops
    BY <2>2, Zenon DEF Ops
  <2>4. \A q \in Proc : pc'[q] \notin CommitPc
    BY <1>0, <2>1 DEF wakeup, OpType, CommitPc, ControlInv
  <2>5. boot = "up"
    BY <2>1, BusyMeansUp, Zenon
  <2> QED BY <1>0, <2>1, <2>2, <2>3, <2>4, <2>5 DEF ControlInv, BufType
<1>13. ASSUME RecoverStep PROVE ControlInv'
  <2>1. boot # "up" /\ UNCHANGED <<pc, outstanding, committing, holder>>
    BY <1>13, Zenon DEF RecoverStep, read_head, RecoverInstall, RecoverErase, Recovered
  <2> QED BY <1>0, <2>1 DEF ControlInv, Ops
<1>14. ASSUME Crash PROVE ControlInv'
  <2>1. Ops' = {}
    BY <1>14 DEF Crash, Ops
  <2>2. Cardinality(Ops') = 0
    BY <2>1, EmptyCount
  <2> QED BY <1>14, <2>1, <2>2 DEF Crash, ControlInv, CommitPc
<1>15. ASSUME UNCHANGED vars PROVE ControlInv'
  BY <1>15, <1>a DEF vars
<1> QED
  BY <1>1, <1>2, <1>3, <1>4, <1>5, <1>6, <1>8, <1>9, <1>10, <1>11, <1>12, <1>13,
     <1>14, <1>15 DEF Next, CommitStep

\* No step leaves a thread asleep in begin_op() with nobody to wake it.
LEMMA SleeperStep ==
  ASSUME LogInv, SleeperHasWaker, [Next]_vars
  PROVE  SleeperHasWaker'
<1> USE LogConstants DEF diskVars, bufVars, logVars, opVars, ctlVars
<1>t. OpType /\ LogType
  BY DEF LogInv, TypeOK
<1>a. ASSUME \A q \in Proc : pc'[q] = "sleep" => pc[q] = "sleep",
             UNCHANGED <<committing, outstanding>>
      PROVE  SleeperHasWaker'
  BY <1>a DEF SleeperHasWaker
<1>b. ASSUME UNCHANGED <<pc, committing, outstanding>>
      PROVE  SleeperHasWaker'
  BY <1>a, <1>b, Zenon
<1>1. ASSUME NEW b \in Block, bread(b) \/ Recycle(b) PROVE SleeperHasWaker'
  BY <1>1, <1>b DEF bread, Recycle
<1>2. ASSUME NEW p \in Proc, begin_op(p) PROVE SleeperHasWaker'
  <2>1. CASE MayBegin
    BY <1>2, <1>t, <2>1 DEF begin_op, SleeperHasWaker, LogType
  <2>2. CASE ~MayBegin
    \* An empty log has room: with nothing logged and nobody inside,
    \* begin_op would not have slept.
    <3>1. committing \/ outstanding > 0
      <4> SUFFICES ASSUME ~committing, outstanding = 0
                   PROVE  FALSE
        BY <1>t DEF LogType
      <4>1. lh = <<>>
        BY <1>2, Zenon DEF begin_op, LogInv, HeaderInv
      <4> QED BY <2>2, <4>1 DEF MayBegin, HasRoom
    <3> QED BY <1>2, <2>2, <3>1 DEF begin_op, SleeperHasWaker
  <2> QED BY <2>1, <2>2
<1>3. ASSUME NEW p \in Proc, NEW b \in Block, NEW v \in Val,
             Modify(p, b, v) \/ log_write(p, b)
      PROVE  SleeperHasWaker'
  BY <1>3, <1>b, Zenon DEF Modify, log_write
<1>4. ASSUME NEW p \in Proc, end_op(p) PROVE SleeperHasWaker'
  <2>1. CASE LastOut
    BY <1>4, <2>1 DEF end_op, SleeperHasWaker
  <2>2. CASE ~LastOut
    <3>1. \A q \in Proc : pc'[q] # "sleep"
      BY <1>4, <1>t, <2>2, Zenon DEF end_op, wakeup, OpType
    <3> QED BY <3>1 DEF SleeperHasWaker
  <2> QED BY <2>1, <2>2
<1>5. ASSUME NEW p \in Proc,
             write_log(p) \/ write_head(p) \/ install_trans(p) \/ erase(p)
      PROVE  SleeperHasWaker'
  <2>1. UNCHANGED <<committing, outstanding>>
    BY <1>5, Zenon DEF write_log, write_head, install_trans, erase
  <2>2. \E s \in {"write_log", "commit", "install", "erase", "done"} :
          pc' = pc \/ pc' = [pc EXCEPT ![p] = s]
    BY <1>5 DEF write_log, write_head, install_trans, erase
  <2> QED BY <1>a, <1>t, <2>1, <2>2 DEF OpType
<1>6. ASSUME NEW p \in Proc, CommitDone(p) PROVE SleeperHasWaker'
  <2>1. \A q \in Proc : pc'[q] # "sleep"
    BY <1>6, <1>t, Zenon DEF CommitDone, wakeup, OpType
  <2> QED BY <2>1 DEF SleeperHasWaker
<1>7. ASSUME RecoverStep PROVE SleeperHasWaker'
  BY <1>7, <1>b DEF RecoverStep, read_head, RecoverInstall, RecoverErase
<1>8. ASSUME Crash PROVE SleeperHasWaker'
  BY <1>8 DEF Crash, SleeperHasWaker
<1>9. ASSUME UNCHANGED vars PROVE SleeperHasWaker'
  BY <1>9, <1>b DEF vars
<1> QED
  BY <1>1, <1>2, <1>3, <1>4, <1>5, <1>6, <1>7, <1>8, <1>9 DEF Next, CommitStep

(***************************************************************************)
(* The log implements the atomic disk.                                      *)
(***************************************************************************)

\* Replaying leaves alone the blocks the header does not name.
LEMMA ReplayMiss ==
  ASSUME NEW h, NEW a, NEW d, NEW b, \A i \in 1..Len(h) : h[i] # b
  PROVE  Replay(h, a, d, b) = d[b]
BY DEF Replay

\* Replaying an empty header changes nothing.
LEMMA ReplayEmpty ==
  ASSUME NEW a, NEW d, NEW b
  PROVE  Replay(<<>>, a, d, b) = d[b]
BY ReplayMiss

\* Initial states of the log are initial states of the atomic disk.
LEMMA RefinementInit == Init => Atomic!Init
<1> SUFFICES ASSUME Init PROVE Atomic!Init
  OBVIOUS
<1>1. \A b \in Block : AfterRecovery(b) = InitVal
  BY ReplayEmpty DEF Init, AfterRecovery
<1>2. \A b \in Block : Current(b) = InitVal
  BY <1>1 DEF Init, Current
<1>3. Ops = {}
  BY Zenon DEF Init, Ops
<1> QED BY <1>1, <1>2, <1>3 DEF Atomic!Init

\* Every step of the log is a step of the atomic disk or a stutter: write_head()
\* is the commit, and Crash forgets what is not committed.
LEMMA RefinementStep ==
  ASSUME LogInv, [Next]_vars
  PROVE  [Atomic!Next]_(Atomic!absVars)
<1> USE LogConstants DEF diskVars, bufVars, logVars, opVars, ctlVars
<1>0. CopyInv /\ BufferInv /\ HeaderInv /\ ControlInv /\ TypeOK
  BY DEF LogInv
<1>t. BufType /\ OpType /\ LogType /\ CtlType /\ DiskType
  BY <1>0, Zenon DEF TypeOK
<1>i. /\ \A i, j \in 1..Len(lh) : lh[i] = lh[j] => i = j
      /\ \A i, j \in 1..Len(head) : head[i] = head[j] => i = j
  BY <1>0 DEF HeaderInv
\* Stuttering: nothing a reader can see changes.
<1>s. ASSUME \A b \in Block : AfterRecovery(b)' = AfterRecovery(b),
             \A b \in Block : Current(b)' = Current(b),
             Ops' = Ops
      PROVE  [Atomic!Next]_(Atomic!absVars)
  BY <1>s DEF Atomic!absVars
<1>d. ASSUME UNCHANGED <<disk, logblk, head>>
      PROVE  \A b \in Block : AfterRecovery(b)' = AfterRecovery(b)
  BY <1>d, Zenon DEF AfterRecovery
<1>c. ASSUME UNCHANGED <<disk, cache, boot>>, boot = "up"
      PROVE  \A b \in Block : Current(b)' = Current(b)
  BY <1>c, Zenon DEF Current, Contents
<1>7. ASSUME NEW p \in Proc, pc[p] \in CommitPc
      PROVE  /\ boot = "up" /\ Ops = {} /\ \A b \in Block : holder[b] = None
             /\ \A q \in Proc : pc[q] \in CommitPc => q = p
  BY <1>0, <1>t, <1>7, BusyMeansUp DEF ControlInv, CommitPc, Ops, BufType
<1>e. ASSUME NEW p \in Proc, pc[p] \in CommitPc, pc'[p] \in CommitPc,
             pc' = [pc EXCEPT ![p] = pc'[p]]
      PROVE  Ops' = Ops
  BY <1>t, <1>e, Zenon DEF Ops, CommitPc, OpType
<1>1. ASSUME NEW b \in Block, bread(b) PROVE [Atomic!Next]_(Atomic!absVars)
  <2>1. \A c \in Block : Current(c)' = Current(c)
    BY <1>1, <1>t, Zenon DEF bread, Current, Contents, BufType, DiskType
  <2> QED BY <1>1, <1>s, <1>d, <2>1, Zenon DEF bread, Ops
<1>2. ASSUME NEW b \in Block, Recycle(b) PROVE [Atomic!Next]_(Atomic!absVars)
  <2>1. cache[b] = disk[b]
    BY <1>0, <1>2, Zenon DEF Recycle, Recyclable, BufferInv
  <2>2. \A c \in Block : Current(c)' = Current(c)
    BY <1>2, <1>t, <2>1 DEF Recycle, Current, Contents, BufType, DiskType
  <2> QED BY <1>2, <1>s, <1>d, <2>2, Zenon DEF Recycle, Ops
<1>3. ASSUME NEW p \in Proc, begin_op(p) PROVE [Atomic!Next]_(Atomic!absVars)
  <2>1. /\ \A b \in Block : AfterRecovery(b)' = AfterRecovery(b)
        /\ \A b \in Block : Current(b)' = Current(b)
    BY <1>3, <1>c, <1>d DEF begin_op
  <2>2. CASE MayBegin
    <3>1. Ops' = Ops \cup {p} /\ p \notin Ops
      BY <1>3, <1>t, <2>2 DEF begin_op, Ops, OpType
    <3> QED BY <2>1, <3>1, Zenon DEF Atomic!Next, Atomic!Begin
  <2>3. CASE ~MayBegin
    <3>1. Ops' = Ops
      BY <1>3, <1>t, <2>3 DEF begin_op, Ops, OpType
    <3> QED BY <1>s, <2>1, <3>1, Zenon
  <2> QED BY <2>2, <2>3, Zenon
<1>4. ASSUME NEW p \in Proc, NEW b \in Block, NEW v \in Val, Modify(p, b, v)
      PROVE [Atomic!Next]_(Atomic!absVars)
  <2>1. p \in Ops /\ Ops' = Ops
    BY <1>4, Zenon DEF Modify, Ops
  <2>2. boot = "up"
    BY <1>4, BusyMeansUp, Zenon DEF Modify
  <2>3. \A c \in Block : AfterRecovery(c)' = AfterRecovery(c)
    BY <1>4, <1>d, Zenon DEF Modify
  <2>4. \A c \in Block : Current(c)' = IF c = b THEN v ELSE Current(c)
    BY <1>4, <1>t, <2>2, Zenon DEF Modify, Current, Contents, BufType
  <2>5. Atomic!Write(p, b, v)
    BY <2>1, <2>3, <2>4, Zenon DEF Atomic!Write
  <2> QED BY <2>5, Zenon DEF Atomic!Next
<1>5. ASSUME NEW p \in Proc, NEW b \in Block, log_write(p, b)
      PROVE [Atomic!Next]_(Atomic!absVars)
  <2>1. boot = "up"
    BY <1>5, BusyMeansUp, Zenon DEF log_write
  <2> QED BY <1>5, <1>s, <1>c, <1>d, <2>1, Zenon DEF log_write, Ops
<1>6. ASSUME NEW p \in Proc, end_op(p) PROVE [Atomic!Next]_(Atomic!absVars)
  <2>1. boot = "up"
    BY <1>6, BusyMeansUp DEF end_op
  <2>2. /\ \A b \in Block : AfterRecovery(b)' = AfterRecovery(b)
        /\ \A b \in Block : Current(b)' = Current(b)
    BY <1>6, <1>c, <1>d, <2>1, Zenon DEF end_op
  <2>3. \A q \in Proc : pc'[q] = "op" <=> pc[q] = "op" /\ q # p
    <3>1. CASE LastOut
      BY <1>6, <1>t, <3>1, Zenon DEF end_op, OpType
    <3>2. CASE ~LastOut
      BY <1>6, <1>t, <3>2, Zenon DEF end_op, OpType, wakeup
    <3> QED BY <3>1, <3>2, Zenon
  <2>4. p \in Ops /\ Ops' = Ops \ {p}
    BY <1>6, <2>3, Zenon DEF end_op, Ops
  <2>5. Atomic!End(p)
    BY <2>2, <2>4, Zenon DEF Atomic!End
  <2> QED BY <2>5 DEF Atomic!Next
<1>8. ASSUME NEW p \in Proc, write_log(p) PROVE [Atomic!Next]_(Atomic!absVars)
  <2>1. /\ pc[p] = "write_log" /\ UNCHANGED <<disk, head, boot>>
        /\ cache' = [cache EXCEPT ![lh[tail + 1]] = Contents(lh[tail + 1])]
        /\ pc' = [pc EXCEPT ![p] = pc'[p]] /\ pc'[p] \in CommitPc
    BY <1>8, <1>t DEF write_log, CommitPc, OpType
  <2>2. boot = "up" /\ \A q \in Proc : pc[q] \in CommitPc => q = p
    BY <1>7, <2>1, Zenon DEF CommitPc
  <2>3. head = <<>>
    BY <1>0, <2>1, <2>2, Zenon DEF HeaderInv, CommitPc
  <2>4. \A b \in Block : AfterRecovery(b)' = AfterRecovery(b)
    BY <2>1, <2>3, ReplayEmpty DEF AfterRecovery
  <2>5. \A b \in Block : Current(b)' = Current(b)
    BY <1>t, <2>1, <2>2 DEF Current, Contents, BufType, DiskType
  <2> QED BY <1>e, <1>s, <2>1, <2>4, <2>5, Zenon DEF CommitPc
<1>9. ASSUME NEW p \in Proc, write_head(p) PROVE [Atomic!Next]_(Atomic!absVars)
  <2>1. /\ pc[p] = "commit" /\ pc' = [pc EXCEPT ![p] = "install"] /\ head' = lh
        /\ UNCHANGED <<disk, logblk, cache, boot>>
    BY <1>9, Zenon DEF write_head
  <2>2. /\ boot = "up" /\ Ops = {} /\ \A b \in Block : holder[b] = None
        /\ \A q \in Proc : pc[q] \in CommitPc => q = p
    BY <1>7, <2>1, Zenon DEF CommitPc
  <2>3. Ops' = Ops
    BY <1>t, <2>1, Zenon DEF Ops, OpType
  <2>4. \A b \in Block : Current(b)' = Current(b)
    BY <1>c, <2>1, <2>2
  <2>5. ASSUME NEW b \in Block PROVE AfterRecovery(b)' = Current(b)
    <3>0. AfterRecovery(b)' = Replay(lh, logblk, disk, b)
      BY <2>1, Zenon DEF AfterRecovery
    <3>1. CASE \E i \in 1..Len(lh) : lh[i] = b
      <4>1. PICK i \in 1..Len(lh) : lh[i] = b
        BY <3>1, Zenon
      <4>2. Replay(lh, logblk, disk, b) = logblk[i]
        BY <1>i, <4>1, Zenon DEF Replay
      <4>3. Unwritten(i)
        BY <2>1, <2>2, Zenon DEF Unwritten, CommitPc
      <4>4. cache[b] # None
        <5>1. pin[b] = 1
          BY <1>0, <2>2, <4>1, <4>3, Zenon DEF BufferInv
        <5>2. pin[b] # 0
          BY <5>1
        <5> QED BY <1>0, <5>2, Zenon DEF BufferInv
      <4>5. logblk[i] = cache[b]
        BY <1>0, <2>1, <4>1, Zenon DEF CopyInv
      <4> QED BY <2>2, <3>0, <4>2, <4>4, <4>5, Zenon DEF Current, Contents
    <3>2. CASE \A i \in 1..Len(lh) : lh[i] # b
      <4>1. pin[b] = 0
        BY <1>0, <3>2, Zenon DEF BufferInv
      <4>2. Contents(b) = disk[b]
        BY <1>0, <2>2, <4>1, Zenon DEF BufferInv, Contents
      <4> QED BY <2>2, <3>0, <3>2, <4>2, ReplayMiss DEF Current
    <3> QED BY <3>1, <3>2, Zenon
  <2>6. Atomic!Commit
    BY <2>2, <2>3, <2>4, <2>5, Zenon DEF Atomic!Commit
  <2> QED BY <2>6, Zenon DEF Atomic!Next
<1>10. ASSUME NEW p \in Proc, install_trans(p) PROVE [Atomic!Next]_(Atomic!absVars)
  <2> DEFINE b == lh[tail + 1]
  <2>1. /\ pc[p] = "install" /\ UNCHANGED <<logblk, head, boot>>
        /\ cache' = [cache EXCEPT ![b] = logblk[tail + 1]]
        /\ disk' = [disk EXCEPT ![b] = logblk[tail + 1]]
        /\ pc' = [pc EXCEPT ![p] = pc'[p]] /\ pc'[p] \in CommitPc
    BY <1>10, <1>t, Zenon DEF install_trans, InstallBlock, CommitPc, OpType
  <2>2. tail + 1 \in 1..Len(lh) /\ b \in Block /\ pin[b] = 1 /\ boot = "up"
    BY <2>1, NextInstallPinned, Zenon
  <2>3. logblk[tail + 1] = cache[b] /\ cache[b] # None
    <3>1. tail + 1 > tail /\ 1 # 0
      BY <1>t DEF CtlType
    <3>2. logblk[tail + 1] = cache[b]
      BY <1>0, <2>1, <2>2, <3>1, Zenon DEF CopyInv
    <3>3. cache[b] # None
      BY <1>0, <2>2, <3>1, Zenon DEF BufferInv
    <3> QED BY <3>2, <3>3, Zenon
  <2>4. \A c \in Block : Current(c)' = Current(c)
    BY <1>t, <2>1, <2>2, <2>3, Zenon DEF Current, Contents, BufType, DiskType
  <2>5. head = lh
    BY <1>0, <2>1, Zenon DEF HeaderInv
  <2>6. ASSUME NEW c \in Block PROVE AfterRecovery(c)' = AfterRecovery(c)
    <3>1. CASE c = b
      <4>1. /\ Replay(head, logblk, disk, b) = logblk[tail + 1]
            /\ Replay(head, logblk, disk', b) = logblk[tail + 1]
        BY <1>i, <2>2, <2>5, Zenon DEF Replay
      <4> QED BY <2>1, <3>1, <4>1, Zenon DEF AfterRecovery
    <3>2. CASE c # b
      BY <1>t, <2>1, <3>2, Zenon DEF AfterRecovery, Replay, DiskType
    <3> QED BY <3>1, <3>2, Zenon
  <2> QED BY <1>e, <1>s, <2>1, <2>4, <2>6, Zenon DEF CommitPc
<1>11. ASSUME NEW p \in Proc, erase(p) PROVE [Atomic!Next]_(Atomic!absVars)
  <2>1. /\ pc[p] = "erase" /\ head' = <<>> /\ UNCHANGED <<disk, logblk, cache, boot>>
        /\ pc' = [pc EXCEPT ![p] = "done"]
    BY <1>11, Zenon DEF erase, Erase
  <2>2. boot = "up" /\ head = lh
    BY <1>0, <1>7, <2>1, Zenon DEF HeaderInv, CommitPc
  <2>3. ASSUME NEW b \in Block PROVE AfterRecovery(b)' = AfterRecovery(b)
    <3>1. AfterRecovery(b)' = disk[b]
      BY <2>1, ReplayEmpty, Zenon DEF AfterRecovery
    <3>2. CASE \E i \in 1..Len(head) : head[i] = b
      <4>1. PICK i \in 1..Len(head) : head[i] = b
        BY <3>2
      <4>2. Replay(head, logblk, disk, b) = logblk[i]
        BY <1>i, <4>1, Zenon DEF Replay
      <4>3. logblk[i] = disk[b]
        BY <1>0, <2>1, <2>2, <4>1, Zenon DEF CopyInv
      <4> QED BY <3>1, <4>2, <4>3, Zenon DEF AfterRecovery
    <3>3. CASE \A i \in 1..Len(head) : head[i] # b
      BY <3>1, <3>3, ReplayMiss DEF AfterRecovery
    <3> QED BY <3>2, <3>3, Zenon
  <2>4. Ops' = Ops
    BY <1>t, <2>1, Zenon DEF Ops, OpType
  <2> QED BY <1>c, <1>s, <2>1, <2>2, <2>3, <2>4, Zenon
<1>12. ASSUME NEW p \in Proc, CommitDone(p) PROVE [Atomic!Next]_(Atomic!absVars)
  <2>1. pc[p] = "done" /\ UNCHANGED <<disk, logblk, head, cache, boot>>
    BY <1>12, Zenon DEF CommitDone
  <2>2. boot = "up"
    BY <1>7, <2>1, Zenon DEF CommitPc
  <2>3. Ops' = Ops
    BY <1>12, <1>t, Zenon DEF CommitDone, Ops, OpType, wakeup
  <2> QED BY <1>c, <1>d, <1>s, <2>1, <2>2, <2>3, Zenon
<1>13. ASSUME read_head PROVE [Atomic!Next]_(Atomic!absVars)
  <2>1. \A b \in Block : AfterRecovery(b)' = AfterRecovery(b)
    BY <1>13, <1>d, Zenon DEF read_head
  <2> QED BY <1>13, <1>s, <2>1, Zenon DEF read_head, Current, Ops
<1>14. ASSUME RecoverInstall PROVE [Atomic!Next]_(Atomic!absVars)
  <2> DEFINE b == lh[tail + 1]
  <2>1. /\ boot = "install" /\ tail < Len(lh) /\ UNCHANGED <<logblk, head, boot, pc>>
        /\ disk' = [disk EXCEPT ![b] = logblk[tail + 1]]
    BY <1>14, Zenon DEF RecoverInstall, InstallBlock
  <2>2. head = lh /\ tail + 1 \in 1..Len(lh) /\ b \in Block
    BY <1>0, <1>t, <2>1 DEF HeaderInv, LogType, CtlType
  <2>3. ASSUME NEW c \in Block PROVE AfterRecovery(c)' = AfterRecovery(c)
    <3>1. CASE c = b
      <4>1. /\ Replay(head, logblk, disk, b) = logblk[tail + 1]
            /\ Replay(head, logblk, disk', b) = logblk[tail + 1]
        BY <1>i, <2>2, Zenon DEF Replay
      <4> QED BY <2>1, <3>1, <4>1, Zenon DEF AfterRecovery
    <3>2. CASE c # b
      BY <1>t, <2>1, <3>2, Zenon DEF AfterRecovery, Replay, DiskType
    <3> QED BY <3>1, <3>2, Zenon
  <2> QED BY <1>s, <2>1, <2>3, Zenon DEF Current, Ops
<1>15. ASSUME RecoverErase PROVE [Atomic!Next]_(Atomic!absVars)
  <2>1. /\ boot = "install" /\ tail = Len(lh) /\ head' = <<>> /\ boot' = "up"
        /\ UNCHANGED <<disk, logblk, cache, pc>>
    BY <1>15, Zenon DEF RecoverErase, Recovered, Erase
  <2>2. head = lh
    BY <1>0, <2>1, Zenon DEF HeaderInv
  <2>3. ASSUME NEW b \in Block
        PROVE  AfterRecovery(b)' = AfterRecovery(b) /\ AfterRecovery(b) = disk[b]
    <3>1. AfterRecovery(b)' = disk[b]
      BY <2>1, ReplayEmpty, Zenon DEF AfterRecovery
    <3>2. CASE \E i \in 1..Len(head) : head[i] = b
      <4>1. PICK i \in 1..Len(head) : head[i] = b
        BY <3>2, Zenon
      <4>2. Replay(head, logblk, disk, b) = logblk[i]
        BY <1>i, <4>1, Zenon DEF Replay
      <4>3. logblk[i] = disk[b]
        BY <1>0, <2>1, <2>2, <4>1, Zenon DEF CopyInv
      <4> QED BY <3>1, <4>2, <4>3, Zenon DEF AfterRecovery
    <3>3. CASE \A i \in 1..Len(head) : head[i] # b
      BY <3>1, <3>3, ReplayMiss DEF AfterRecovery
    <3> QED BY <3>2, <3>3, Zenon
  <2>4. \A b \in Block : pin[b] = 0
    BY <1>0, <2>1 DEF BufferInv
  <2>5. \A b \in Block : Contents(b) = disk[b]
    <3>1. \A b \in Block : holder[b] = None
      BY <1>0, <1>t, <2>1 DEF ControlInv, BufType
    <3> QED BY <1>0, <2>4, <3>1, Zenon DEF BufferInv, Contents
  <2>6. \A b \in Block : Current(b)' = Current(b)
    BY <2>1, <2>3, <2>5, Zenon DEF Current, Contents
  <2> QED BY <1>s, <2>1, <2>3, <2>6, Zenon DEF Ops
<1>16. ASSUME Crash PROVE [Atomic!Next]_(Atomic!absVars)
  <2>1. \A b \in Block : AfterRecovery(b)' = AfterRecovery(b)
    BY <1>16, <1>d, Zenon DEF Crash
  <2>2. \A b \in Block : Current(b)' = AfterRecovery(b)
    BY <1>16, <2>1, Zenon DEF Crash, Current
  <2>3. Ops' = {}
    BY <1>16 DEF Crash, Ops
  <2>4. Atomic!Crash
    BY <2>1, <2>2, <2>3, Zenon DEF Atomic!Crash
  <2> QED BY <2>4, Zenon DEF Atomic!Next
<1>17. ASSUME UNCHANGED vars PROVE [Atomic!Next]_(Atomic!absVars)
  <2>1. \A b \in Block : AfterRecovery(b)' = AfterRecovery(b)
    BY <1>17, <1>d DEF vars
  <2> QED BY <1>17, <1>s, <2>1, Zenon DEF vars, Current, Contents, Ops
<1> QED
  BY <1>1, <1>2, <1>3, <1>4, <1>5, <1>6, <1>8, <1>9, <1>10, <1>11, <1>12,
     <1>13, <1>14, <1>15, <1>16, <1>17 DEF Next, CommitStep, RecoverStep

(***************************************************************************)
(* The reservation of begin_op().                                           *)
(***************************************************************************)

\* Pairs of an open operation and one of its places.
LEMMA Places ==
  ASSUME SetFacts, NEW O, IsFiniteSet(O), NEW R, R \subseteq O \X (1..MAXOPBLOCKS)
  PROVE  /\ IsFiniteSet(R) /\ Cardinality(R) \in Nat
         /\ Cardinality(R) <= Cardinality(O) * MAXOPBLOCKS
<1>1. IsFiniteSet(1..MAXOPBLOCKS) /\ Cardinality(1..MAXOPBLOCKS) = MAXOPBLOCKS
  BY LogConstants, Zenon DEF SetFacts
<1>2. /\ IsFiniteSet(O \X (1..MAXOPBLOCKS))
      /\ Cardinality(O \X (1..MAXOPBLOCKS)) = Cardinality(O) * MAXOPBLOCKS
  <2>1. Cardinality(O \X (1..MAXOPBLOCKS)) = Cardinality(O) * Cardinality(1..MAXOPBLOCKS)
    BY <1>1, ProductCount, Zenon
  <2> QED BY <1>1, <2>1, ProductCount, Zenon
<1>3. IsFiniteSet(R) /\ Cardinality(R) <= Cardinality(O \X (1..MAXOPBLOCKS))
  BY <1>2, SubsetCount, Zenon
<1>4. Cardinality(R) \in Nat
  BY <1>3, CountNat, Zenon
<1> QED BY <1>2, <1>3, <1>4, Zenon

\* A step that logs nothing, locks nothing and opens no operation.
LEMMA ReserveKept ==
  ASSUME SetFacts, LogInv, ReserveInv, UNCHANGED <<lh, wrote, holder>>, Ops' \subseteq Ops
  PROVE  ReserveInv'
<1>1. \A q \in Ops' : Within(q)'
  <2>1. ASSUME NEW q \in Ops' PROVE Within(q)'
    <3>1. Within(q)
      BY <2>1, Zenon DEF ReserveInv
    <3>2. wrote'[q] = wrote[q] /\ Held(q)' = Held(q) /\ \A b : Logged(b)' = Logged(b)
      BY Zenon DEF Held, Logged
    <3> QED BY <3>1, <3>2, Zenon DEF Within
  <2> QED BY <2>1, Zenon
<1>2. Reserve' \subseteq Reserve
  BY Zenon DEF Reserve
<1>3. IsFiniteSet(Ops) /\ Reserve \subseteq Ops \X (1..MAXOPBLOCKS)
  BY OpsFinite, Zenon DEF Reserve
<1>4. IsFiniteSet(Reserve) /\ Cardinality(Reserve) \in Nat
  BY <1>3, Places, Zenon
<1>5. Cardinality(Reserve') <= Cardinality(Reserve) /\ Cardinality(Reserve') \in Nat
  <2>1. IsFiniteSet(Reserve') /\ Cardinality(Reserve') <= Cardinality(Reserve)
    BY <1>2, <1>4, SubsetCount, Zenon
  <2> QED BY <2>1, CountNat, Zenon
<1>6. Len(lh) \in Nat /\ LOGBLOCKS \in Nat /\ Len(lh') = Len(lh)
  BY LogConstants DEF LogInv, TypeOK, LogType
<1>7. Len(lh) + Cardinality(Reserve) <= LOGBLOCKS
  BY Zenon DEF ReserveInv
<1>8. Len(lh') + Cardinality(Reserve') <= LOGBLOCKS
  BY <1>4, <1>5, <1>6, <1>7
<1> QED BY <1>1, <1>8, Zenon DEF ReserveInv

\* Nothing is reserved when no operation is open.
LEMMA ReserveNone ==
  ASSUME SetFacts, LogInv', Ops' = {}
  PROVE  ReserveInv'
<1>1. Reserve' = {}
  BY Zenon DEF Reserve
<1>2. Cardinality(Reserve') = 0
  BY <1>1, EmptyCount, Zenon
<1>3. Len(lh') \in Nat /\ Len(lh') <= LOGBLOCKS /\ LOGBLOCKS \in Nat
  BY LogConstants DEF LogInv, TypeOK, LogType
<1>4. Len(lh') + Cardinality(Reserve') <= LOGBLOCKS
  BY <1>2, <1>3
<1> QED BY <1>4, Zenon DEF ReserveInv

\* begin_op() reserves only what there is room for.
LEMMA ReserveBegin ==
  ASSUME SetFacts, LogInv, LogInv', ReserveInv, NEW p \in Proc, begin_op(p), MayBegin,
         outstanding' = outstanding + 1, pc' = [pc EXCEPT ![p] = "op"],
         wrote' = [wrote EXCEPT ![p] = {}]
  PROVE  ReserveInv'
<1>t. OpType /\ LogType /\ BufType
  BY Zenon DEF LogInv, TypeOK
<1>1. pc[p] # "op" /\ UNCHANGED <<lh, holder>>
  BY Zenon DEF begin_op, bufVars
<1>2. Held(p) = {}
  <2>1. ASSUME NEW b \in Block, holder[b] = p PROVE FALSE
    <3>1. \A c \in Block : holder[c] # None => pc[holder[c]] = "op"
      BY Zenon DEF LogInv, ControlInv
    <3> QED BY <1>1, <2>1, <3>1, LogConstants, Zenon
  <2> QED BY <2>1, Zenon DEF Held
<1>3. ASSUME NEW q \in Ops' PROVE Within(q)'
  <2>1. Held(q)' = Held(q) /\ \A b : Logged(b)' = Logged(b)
    BY <1>1, Zenon DEF Held, Logged
  <2>2. CASE q = p
    <3>1. wrote'[q] = {} /\ Held(q)' = {}
      BY <1>2, <1>t, <2>1, <2>2, Zenon DEF OpType
    <3>2. wrote'[q] \cup Held(q)' = {}
      BY <3>1, Zenon
    <3>3. /\ IsFiniteSet(wrote'[q] \cup Held(q)')
          /\ Cardinality(wrote'[q] \cup Held(q)') <= OpBlocks
      <4>1. IsFiniteSet({}) /\ Cardinality({}) = 0 /\ 0 <= OpBlocks
        BY EmptyCount, LogConstants
      <4> QED BY <3>2, <4>1, Zenon
    <3> QED BY <3>1, <3>3, Zenon DEF Within
  <2>3. CASE q # p
    <3>1. q \in Ops /\ wrote'[q] = wrote[q]
      BY <1>3, <1>t, <2>3, Zenon DEF Ops, OpType
    <3> QED BY <2>1, <3>1, Zenon DEF Within, ReserveInv
  <2> QED BY <2>2, <2>3, Zenon
<1>4. Cardinality(Reserve') \in Nat /\ Cardinality(Reserve') <= outstanding' * MAXOPBLOCKS
  <2>1. Reserve' \subseteq Ops' \X (1..MAXOPBLOCKS)
    BY Zenon DEF Reserve
  <2>2. IsFiniteSet(Ops')
    <3>1. Ops' \subseteq Proc /\ IsFiniteSet(Proc)
      BY LogConstants, Zenon DEF Ops
    <3> QED BY <3>1, SubsetCount, Zenon
  <2>3. outstanding' = Cardinality(Ops')
    BY Zenon DEF LogInv, ControlInv
  <2> QED BY <2>1, <2>2, <2>3, Places, Zenon
<1>5. Len(lh) + (outstanding + 1) * MAXOPBLOCKS <= LOGBLOCKS
  BY Zenon DEF MayBegin, HasRoom
<1>6. Len(lh) \in Nat /\ LOGBLOCKS \in Nat /\ Len(lh') = Len(lh)
  BY <1>1, <1>t, LogConstants DEF LogType
<1>7. (outstanding + 1) * MAXOPBLOCKS \in Nat
  BY <1>t, LogConstants DEF LogType
<1>8. Len(lh') + Cardinality(Reserve') <= LOGBLOCKS
  <2> DEFINE r == (outstanding + 1) * MAXOPBLOCKS
             k == Cardinality(Reserve')
  <2>1. k \in Nat /\ k <= r /\ r \in Nat /\ Len(lh) + r <= LOGBLOCKS
    BY <1>4, <1>5, <1>7, Zenon
  <2> HIDE DEF r, k
  <2>2. Len(lh) + k <= LOGBLOCKS
    BY <1>6, <2>1
  <2> QED BY <1>6, <2>2, Zenon DEF k
<1> QED BY <1>3, <1>8, Zenon DEF ReserveInv

\* The operation keeps its own bound when it locks a block.
LEMMA ReserveModify ==
  ASSUME SetFacts, LogInv, ReserveInv, NEW p \in Proc, NEW b \in Block, NEW v \in Val, Modify(p, b, v)
  PROVE  ReserveInv'
<1>t. OpType /\ BufType
  BY Zenon DEF LogInv, TypeOK
<1>1. /\ p \in Ops /\ Ops' = Ops /\ UNCHANGED <<lh, wrote>> /\ holder[b] = None
      /\ holder' = [holder EXCEPT ![b] = p]
  BY Zenon DEF Modify, Ops, logVars
<1>2. ASSUME NEW q \in Ops' PROVE Within(q)'
  <2>1. Within(q) /\ q \in Proc /\ q # None
    BY <1>1, <1>2, LogConstants, Zenon DEF ReserveInv, Ops
  <2>2. wrote'[q] = wrote[q] /\ \A c : Logged(c)' = Logged(c)
    BY <1>1, Zenon DEF Logged
  <2>3. CASE q = p
    <3>1. Held(q)' = Held(q) \cup {b}
      BY <1>1, <1>t, <2>3, Zenon DEF Held, BufType
    <3>2. wrote'[q] \cup Held(q)' = (wrote[q] \cup Held(q)) \cup {b}
      BY <2>2, <3>1, Zenon
    <3>3. IsFiniteSet(wrote'[q] \cup Held(q)')
      BY <2>1, <3>2, AddCount, Zenon DEF Within
    <3>4. Cardinality((wrote[q] \cup Held(q)) \cup {b}) <= OpBlocks
      BY <2>3, Zenon DEF Modify, Held
    <3> QED BY <2>1, <2>2, <3>2, <3>3, <3>4, Zenon DEF Within
  <2>4. CASE q # p
    <3>1. Held(q)' = Held(q)
      BY <1>1, <1>t, <2>1, <2>4, Zenon DEF Held, BufType
    <3> QED BY <2>1, <2>2, <3>1, Zenon DEF Within
  <2> QED BY <2>3, <2>4, Zenon
<1>3. Reserve' = Reserve
  BY <1>1, Zenon DEF Reserve
<1> QED BY <1>1, <1>2, <1>3, Zenon DEF ReserveInv

\* log_write() of a new block uses up one of the places of its operation; of a
\* block the operation logged before it changes nothing, because the block is
\* still in the header and is absorbed.
LEMMA ReserveWrite ==
  ASSUME SetFacts, LogInv, ReserveInv, NEW p \in Proc, NEW b \in Block, log_write(p, b)
  PROVE  ReserveInv'
<1>t. OpType /\ BufType /\ LogType
  BY Zenon DEF LogInv, TypeOK
<1>1. /\ p \in Ops /\ Ops' = Ops /\ holder[b] = p /\ p # None /\ b \in Held(p)
      /\ wrote' = [wrote EXCEPT ![p] = @ \cup {b}]
      /\ holder' = [holder EXCEPT ![b] = None]
      /\ Record(b)
  BY LogConstants, Zenon DEF log_write, Ops, Held
<1>2. /\ lh' = lh \/ lh' = Append(lh, b)
      /\ Logged(b) => lh' = lh
      /\ Len(lh') <= Len(lh) + 1 /\ Len(lh') \in Nat
      /\ \A c : Logged(c) => Logged(c)'
      /\ Logged(b)'
  <2>1. CASE Logged(b) /\ lh' = lh
    BY <1>t, <2>1 DEF Logged, LogType
  <2>2. CASE ~Logged(b) /\ lh' = Append(lh, b)
    <3>1. /\ Len(lh') = Len(lh) + 1 /\ Len(lh) \in Nat
          /\ \A i \in 1..Len(lh) : lh'[i] = lh[i]
          /\ lh'[Len(lh) + 1] = b
      BY <1>t, <2>2 DEF LogType
    <3> QED BY <2>2, <3>1 DEF Logged
  <2> QED BY <1>1, <2>1, <2>2, Zenon DEF Record
<1>3. ASSUME NEW q \in Ops' PROVE Within(q)'
  <2>1. Within(q) /\ q \in Proc /\ q # None
    BY <1>1, <1>3, LogConstants, Zenon DEF ReserveInv, Ops
  <2>2. wrote'[q] \cup Held(q)' = wrote[q] \cup Held(q)
    <3>1. CASE q = p
      <4>1. Held(q)' = Held(q) \ {b} /\ wrote'[q] = wrote[q] \cup {b}
        BY <1>1, <1>t, <2>1, <3>1, Zenon DEF Held, BufType, OpType
      <4> QED BY <1>1, <3>1, <4>1, Zenon
    <3>2. CASE q # p
      <4>1. Held(q)' = Held(q) /\ wrote'[q] = wrote[q]
        BY <1>1, <1>t, <2>1, <3>2, Zenon DEF Held, BufType, OpType
      <4> QED BY <4>1, Zenon
    <3> QED BY <3>1, <3>2, Zenon
  <2>3. \A c \in wrote'[q] : Logged(c)'
    <3>1. \A c \in wrote'[q] : c \in wrote[q] \/ c = b
      BY <1>1, <1>t, <2>1, Zenon DEF OpType
    <3> QED BY <1>2, <2>1, <3>1, Zenon DEF Within
  <2> QED BY <2>1, <2>2, <2>3, Zenon DEF Within
<1>4. IsFiniteSet(Reserve) /\ Cardinality(Reserve) \in Nat
  <2>1. IsFiniteSet(Ops) /\ Reserve \subseteq Ops \X (1..MAXOPBLOCKS)
    BY OpsFinite, Zenon DEF Reserve
  <2> QED BY <2>1, Places, Zenon
<1>5. /\ Len(lh) + Cardinality(Reserve) <= LOGBLOCKS
      /\ Len(lh) \in Nat /\ LOGBLOCKS \in Nat
  BY <1>t, LogConstants DEF LogType, ReserveInv
<1>6. Len(lh') + Cardinality(Reserve') <= LOGBLOCKS
  <2>1. CASE b \in wrote[p]
    <3>1. Logged(b)
      BY <1>1, <2>1, Zenon DEF ReserveInv, Within
    <3>2. lh' = lh /\ wrote' = wrote
      <4>1. wrote[p] \cup {b} = wrote[p]
        BY <2>1, Zenon
      <4>2. wrote' = [wrote EXCEPT ![p] = wrote[p]]
        BY <1>1, <4>1, Zenon
      <4> QED BY <1>2, <1>t, <3>1, <4>2 DEF OpType
    <3>3. Reserve' = Reserve
      BY <1>1, <3>2, Zenon DEF Reserve
    <3> QED BY <1>5, <3>2, <3>3, Zenon
  <2>2. CASE b \notin wrote[p]
    <3> DEFINE U == wrote[p] \cup Held(p)
    <3>1. PICK n : n = Cardinality(wrote[p])
      BY Zenon
    <3>2. /\ IsFiniteSet(wrote[p]) /\ n \in Nat
          /\ IsFiniteSet(wrote[p] \cup {b}) /\ Cardinality(wrote[p] \cup {b}) = n + 1
          /\ n + 1 <= OpBlocks
      <4>1. IsFiniteSet(U) /\ Cardinality(U) <= OpBlocks
        BY <1>1, Zenon DEF ReserveInv, Within
      <4>2. wrote[p] \subseteq U /\ wrote[p] \cup {b} \subseteq U
        BY <1>1, Zenon
      <4>3. IsFiniteSet(wrote[p])
        BY <4>1, <4>2, SubsetCount, Zenon
      <4>4. n \in Nat
        BY <3>1, <4>3, CountNat, Zenon
      <4>5. IsFiniteSet(wrote[p] \cup {b}) /\ Cardinality(wrote[p] \cup {b}) = n + 1
        BY <2>2, <3>1, <4>3, AddCount, Zenon
      <4>6. Cardinality(wrote[p] \cup {b}) <= Cardinality(U) /\ Cardinality(U) \in Nat
        BY <4>1, <4>2, SubsetCount, CountNat, Zenon
      <4> HIDE DEF U
      <4>7. n + 1 <= OpBlocks
        <5>1. n + 1 <= Cardinality(U) /\ Cardinality(U) \in Nat /\ Cardinality(U) <= OpBlocks
          BY <4>1, <4>5, <4>6, Zenon
        <5>2. OpBlocks \in Nat
          BY LogConstants
        <5> QED BY <4>4, <5>1, <5>2
      <4> QED BY <4>3, <4>4, <4>5, <4>7, Zenon
    <3>3. /\ n + 1 \in 1..MAXOPBLOCKS
          /\ \A k \in 1..MAXOPBLOCKS : k > n + 1 <=> k > n /\ k # n + 1
          /\ n + 1 > n
      BY <3>2, LogConstants
    <3>4. wrote'[p] = wrote[p] \cup {b}
      BY <1>1, <1>t, Zenon DEF OpType
    <3>5. Reserve' = Reserve \ {<<p, n + 1>>} /\ <<p, n + 1>> \in Reserve
      <4>1. \A q \in Ops, k \in 1..MAXOPBLOCKS :
              k > Cardinality(wrote'[q])
                <=> k > Cardinality(wrote[q]) /\ <<q, k>> # <<p, n + 1>>
        <5>1. TAKE q \in Ops, k \in 1..MAXOPBLOCKS
        <5>2. CASE q = p
          BY <3>1, <3>2, <3>3, <3>4, <5>2, Zenon
        <5>3. CASE q # p
          <6>1. wrote'[q] = wrote[q]
            BY <1>1, <1>t, <5>3, Zenon DEF OpType, Ops
          <6> QED BY <5>3, <6>1, Zenon
        <5> QED BY <5>2, <5>3, Zenon
      <4>2. Reserve' = {x \in Ops \X (1..MAXOPBLOCKS) : x[2] > Cardinality(wrote'[x[1]])}
        BY <1>1, Zenon DEF Reserve
      <4>3. \A x \in Ops \X (1..MAXOPBLOCKS) :
              x[1] \in Ops /\ x[2] \in 1..MAXOPBLOCKS /\ x = <<x[1], x[2]>>
        OBVIOUS
      <4>4. ASSUME NEW x PROVE x \in Reserve' <=> x \in Reserve \ {<<p, n + 1>>}
        BY <4>1, <4>2, <4>3, Zenon DEF Reserve
      <4>5. <<p, n + 1>> \in Reserve
        <5>1. <<p, n + 1>> \in Ops \X (1..MAXOPBLOCKS)
          BY <1>1, <3>3, Zenon
        <5> QED BY <3>1, <3>3, <5>1 DEF Reserve
      <4> QED BY <4>4, <4>5, Zenon
    <3>6. Cardinality(Reserve') = Cardinality(Reserve) - 1
      BY <1>4, <3>5, RemoveCount, Zenon
    <3>7. Len(lh') <= Len(lh) + 1 /\ Len(lh') \in Nat
      BY <1>2, Zenon
    <3> QED BY <1>4, <1>5, <3>6, <3>7
  <2> QED BY <2>1, <2>2, Zenon
<1> QED BY <1>3, <1>6, Zenon DEF ReserveInv

\* The room the open operations may still need stays free in the log area.
LEMMA ReserveStep ==
  ASSUME SetFacts, LogInv, LogInv', ReserveInv, [Next]_vars
  PROVE  ReserveInv'
<1>t. OpType
  BY Zenon DEF LogInv, TypeOK
<1>1. ASSUME NEW b \in Block, bread(b) \/ Recycle(b) PROVE ReserveInv'
  BY <1>1, ReserveKept, Zenon DEF bread, Recycle, logVars, opVars, Ops
<1>2. ASSUME NEW p \in Proc, begin_op(p) PROVE ReserveInv'
  <2>1. CASE MayBegin
    BY <1>2, <2>1, ReserveBegin, Zenon DEF begin_op
  <2>2. CASE ~MayBegin
    <3>1. UNCHANGED <<lh, wrote, holder>> /\ pc' = [pc EXCEPT ![p] = "sleep"]
      BY <1>2, <2>2, Zenon DEF begin_op, bufVars
    <3>2. Ops' \subseteq Ops
      <4>1. ASSUME NEW q \in Proc, pc'[q] = "op" PROVE pc[q] = "op"
        BY <1>t, <3>1, <4>1 DEF OpType
      <4> QED BY <4>1, Zenon DEF Ops
    <3> QED BY <3>1, <3>2, ReserveKept, Zenon
  <2> QED BY <2>1, <2>2, Zenon
<1>3. ASSUME NEW p \in Proc, end_op(p) PROVE ReserveInv'
  <2>1. UNCHANGED <<lh, wrote, holder>>
    BY <1>3, Zenon DEF end_op, bufVars
  <2>2. ASSUME NEW q \in Proc, pc'[q] = "op" PROVE pc[q] = "op"
    BY <1>3, <1>t, <2>2, Zenon DEF end_op, OpType, wakeup
  <2>3. Ops' \subseteq Ops
    BY <2>2, Zenon DEF Ops
  <2> QED BY <2>1, <2>3, ReserveKept, Zenon
<1>4. ASSUME NEW p \in Proc, CommitStep(p) PROVE ReserveInv'
  <2>1. ASSUME NEW q \in Proc, pc'[q] = "op" PROVE pc[q] = "op"
    BY <1>4, <1>t, <2>1, Zenon DEF CommitStep, write_log, write_head, install_trans, erase,
                                   CommitDone, OpType, wakeup
  <2>2. Ops' \subseteq Ops
    BY <2>1, Zenon DEF Ops
  <2>3. CASE erase(p)
    <3>1. Ops = {}
      <4>1. pc[p] \in CommitPc
        BY <2>3 DEF erase, CommitPc
      <4> QED BY <4>1, Zenon DEF LogInv, ControlInv
    <3> QED BY <2>2, <3>1, ReserveNone, Zenon
  <2>4. CASE ~erase(p)
    <3>1. UNCHANGED <<lh, wrote, holder>>
      BY <1>4, <2>4, Zenon DEF CommitStep, write_log, write_head, install_trans,
                               CommitDone, logVars, bufVars
    <3> QED BY <2>2, <3>1, ReserveKept, Zenon
  <2> QED BY <2>3, <2>4, Zenon
<1>5. ASSUME NEW p \in Proc, NEW b \in Block, log_write(p, b) PROVE ReserveInv'
  BY <1>5, ReserveWrite, Zenon
<1>6. ASSUME NEW p \in Proc, NEW b \in Block, NEW v \in Val, Modify(p, b, v)
      PROVE  ReserveInv'
  BY <1>6, ReserveModify, Zenon
<1>7. ASSUME RecoverStep \/ Crash PROVE ReserveInv'
  <2>1. \A q \in Proc : pc'[q] = "idle"
    BY <1>7, <1>t, Zenon DEF RecoverStep, read_head, RecoverInstall, RecoverErase, Recovered,
                             Crash, LogInv, ControlInv, opVars, OpType
  <2>2. Ops' = {}
    BY <2>1 DEF Ops
  <2> QED BY <2>2, ReserveNone, Zenon
<1>8. ASSUME UNCHANGED vars PROVE ReserveInv'
  BY <1>8, ReserveKept, Zenon DEF vars, logVars, bufVars, opVars, Ops
<1> QED BY <1>1, <1>2, <1>3, <1>4, <1>5, <1>6, <1>7, <1>8, Zenon DEF Next

\* Nothing is reserved when the system starts.
LEMMA InitReserve ==
  ASSUME SetFacts, Init
  PROVE  ReserveInv
<1>1. Ops = {}
  BY DEF Init, Ops
<1>2. Reserve = {}
  BY <1>1, Zenon DEF Reserve
<1>3. Cardinality(Reserve) = 0
  BY <1>2, EmptyCount, Zenon
<1>4. Len(lh) = 0
  BY DEF Init
<1>5. Len(lh) + Cardinality(Reserve) <= LOGBLOCKS
  BY <1>3, <1>4, LogConstants
<1> QED BY <1>1, <1>5, Zenon DEF ReserveInv

\* With a place left for each open operation no call panics.
LEMMA RoomMeansNoPanic ==
  ASSUME SetFacts, OpBlocks < MAXOPBLOCKS, LogInv, ReserveInv
  PROVE  NoPanic
<1>1. ASSUME NEW p \in Ops PROVE ~committing /\ ~LogWritePanics
  <2>1. ~committing
    BY <1>1, Zenon DEF LogInv, ControlInv
  <2>2. outstanding >= 1 /\ outstanding \in Nat
    BY <1>1, OpsFinite, Zenon DEF LogInv, TypeOK, LogType
  <2>3. IsFiniteSet(Ops) /\ Reserve \subseteq Ops \X (1..MAXOPBLOCKS)
    BY OpsFinite, Zenon DEF Reserve
  <2>4. IsFiniteSet(Reserve) /\ Cardinality(Reserve) \in Nat
    BY <2>3, Places, Zenon
  <2>5. Cardinality(wrote[p]) < MAXOPBLOCKS
    <3> DEFINE U == wrote[p] \cup Held(p)
    <3>1. IsFiniteSet(U) /\ Cardinality(U) <= OpBlocks /\ wrote[p] \subseteq U
      BY <1>1, Zenon DEF ReserveInv, Within
    <3>2. IsFiniteSet(wrote[p]) /\ Cardinality(wrote[p]) <= Cardinality(U)
      BY <3>1, SubsetCount, Zenon
    <3>3. Cardinality(wrote[p]) \in Nat /\ Cardinality(U) \in Nat
      BY <3>1, <3>2, CountNat, Zenon
    <3> HIDE DEF U
    <3> QED BY <3>1, <3>2, <3>3, LogConstants
  <2>6. <<p, MAXOPBLOCKS>> \in Reserve
    <3>1. <<p, MAXOPBLOCKS>> \in Ops \X (1..MAXOPBLOCKS)
      BY <1>1, LogConstants
    <3>2. MAXOPBLOCKS > Cardinality(wrote[p])
      <4> DEFINE c == Cardinality(wrote[p])
      <4>1. c < MAXOPBLOCKS
        BY <2>5, Zenon
      <4> HIDE DEF c
      <4>2. MAXOPBLOCKS > c
        BY <4>1
      <4> QED BY <4>2 DEF c
    <3> QED BY <3>1, <3>2 DEF Reserve
  <2>7. Cardinality(Reserve) # 0
    BY <2>4, <2>6, EmptyCount, Zenon
  <2>8. Len(lh) + Cardinality(Reserve) <= LOGBLOCKS
    BY Zenon DEF ReserveInv
  <2>9. Len(lh) \in Nat /\ LOGBLOCKS \in Nat
    BY LogConstants DEF LogInv, TypeOK, LogType
  <2>10. ~(Len(lh) >= LOGBLOCKS)
    BY <2>4, <2>7, <2>8, <2>9
  <2>11. ~(outstanding < 1)
    BY <2>2
  <2> QED BY <2>1, <2>10, <2>11, Zenon DEF LogWritePanics
<1> QED BY <1>1, Zenon DEF NoPanic

\* In a state of the invariant with no operation open, nothing is pending.
LEMMA QuietDurable ==
  ASSUME SetFacts, LogInv
  PROVE  QuiescentDurable
<1> SUFFICES ASSUME boot = "up", Ops = {}, ~committing
             PROVE  /\ lh = <<>> /\ head = <<>>
                    /\ \A b \in Block : Contents(b) = disk[b] /\ pin[b] = 0
  BY DEF QuiescentDurable
<1>1. lh = <<>>
  BY OpsFinite, Zenon DEF LogInv, HeaderInv
<1>2. head = <<>>
  BY DEF LogInv, HeaderInv, ControlInv, CommitPc
<1>3. \A b \in Block : pin[b] = 0
  BY <1>1 DEF LogInv, BufferInv
<1>4. \A b \in Block : holder[b] = None
  BY Zenon DEF LogInv, ControlInv, Ops, TypeOK, BufType
<1>5. \A b \in Block : Contents(b) = disk[b]
  BY <1>3, <1>4 DEF LogInv, BufferInv, Contents
<1> QED BY <1>1, <1>2, <1>3, <1>5

\* install_trans() copies to a buffer what it holds already.
LEMMA InstallStep ==
  ASSUME LogInv, [Next]_vars
  PROVE  [\A p \in Proc : install_trans(p) =>
            \A b \in Block : Contents(b)' = Contents(b)]_vars
<1> SUFFICES ASSUME NEW p \in Proc, install_trans(p), NEW c \in Block
             PROVE  Contents(c)' = Contents(c)
  OBVIOUS
<1> DEFINE b == lh[tail + 1]
<1>1. /\ pc[p] = "install"
      /\ cache' = [cache EXCEPT ![b] = logblk[tail + 1]]
      /\ disk' = [disk EXCEPT ![b] = logblk[tail + 1]]
  BY Zenon DEF install_trans, InstallBlock
<1>2. tail + 1 \in 1..Len(lh) /\ b \in Block /\ pin[b] = 1
  BY <1>1, NextInstallPinned, Zenon
<1>3. logblk[tail + 1] = cache[b] /\ cache[b] # None
  BY <1>1, <1>2 DEF LogInv, CopyInv, BufferInv, TypeOK, CtlType
<1> QED BY <1>1, <1>2, <1>3 DEF Contents, LogInv, TypeOK, BufType, DiskType

(***************************************************************************)
(* Finite sets.                                                             *)
(***************************************************************************)

FS == INSTANCE FiniteSetTheorems

\* The library's finite sets are the model's.
LEMMA SameFinite ==
  /\ \A S : FS!IsFiniteSet(S) <=> IsFiniteSet(S)
  /\ \A S : FS!Cardinality(S) = Cardinality(S)
BY DEF IsFiniteSet, FS!IsFiniteSet, Cardinality, FS!Cardinality

\* What the proofs above assume of finite sets.
LEMMA SetFactsHold == SetFacts
<1>1. /\ IsFiniteSet({}) /\ Cardinality({}) = 0
      /\ \A S : IsFiniteSet(S) => Cardinality(S) \in Nat /\ (Cardinality(S) = 0 <=> S = {})
  BY SameFinite, FS!FS_EmptySet, FS!FS_CardinalityType, Zenon
<1>2. \A S, T : IsFiniteSet(S) /\ T \subseteq S
        => IsFiniteSet(T) /\ Cardinality(T) <= Cardinality(S)
  BY SameFinite, FS!FS_Subset, Zenon
<1>3. \A S, x : IsFiniteSet(S)
        => /\ IsFiniteSet(S \cup {x})
           /\ Cardinality(S \cup {x}) = IF x \in S THEN Cardinality(S) ELSE Cardinality(S) + 1
  BY SameFinite, FS!FS_AddElement, Zenon
<1>4. \A S, x : IsFiniteSet(S)
        => /\ IsFiniteSet(S \ {x})
           /\ Cardinality(S \ {x}) = IF x \in S THEN Cardinality(S) - 1 ELSE Cardinality(S)
  BY SameFinite, FS!FS_RemoveElement, Zenon
<1>5. \A S, T : IsFiniteSet(S) /\ IsFiniteSet(T)
        => /\ IsFiniteSet(S \X T)
           /\ Cardinality(S \X T) = Cardinality(S) * Cardinality(T)
  BY SameFinite, FS!FS_Product, Zenon
<1>6. \A n \in Nat : IsFiniteSet(1..n) /\ Cardinality(1..n) = n
  <2> TAKE n \in Nat
  <2>1. FS!IsFiniteSet(1..n) /\ FS!Cardinality(1..n) = n
    BY FS!FS_Interval
  <2> QED BY <2>1, SameFinite, Zenon
<1> QED BY <1>1, <1>2, <1>3, <1>4, <1>5, <1>6, Zenon DEF SetFacts

(***************************************************************************)
(* Theorems.                                                                *)
(***************************************************************************)

\* The log area, the pins and the two headers agree at every step of commit()
\* and recover_from_log().
THEOREM LogInvariant == Spec => []LogInv
<1>1. LogInv /\ [Next]_vars => LogInv'
  BY SetFactsHold, OpsFinite, TypeOKStep, ControlInvStep, HeaderInvStep, BufferInvStep, CopyInvStep DEF LogInv
<1>2. Init => LogInv
  BY SetFactsHold, InitLogInv
<1> QED BY <1>1, <1>2, PTL DEF Spec

\* Type correctness of the log's state.
THEOREM LogTypeCorrect == Spec => []TypeOK
<1>1. LogInv => TypeOK
  BY DEF LogInv
<1> QED BY LogInvariant, <1>1, PTL

\* Between groups of operations everything written is at home on the disk and
\* no buffer is pinned.
THEOREM DurableWhenQuiet == Spec => []QuiescentDurable
<1>1. LogInv => QuiescentDurable
  BY SetFactsHold, QuietDurable, Zenon
<1> QED BY LogInvariant, <1>1, PTL

\* install_trans() never replaces a buffer by an older copy.
THEOREM InstallKeepsContents == Spec => InstallNeverReverts
<1>1. LogInv /\ [Next]_vars
        => [\A p \in Proc : install_trans(p) =>
              \A b \in Block : Contents(b)' = Contents(b)]_vars
  BY InstallStep, Zenon
<1> QED BY LogInvariant, <1>1, PTL DEF Spec, InstallNeverReverts

\* No lost wakeup in begin_op: whoever sleeps there has an operation or a
\* commit in progress that will wake it.
THEOREM NoForgottenSleeper == Spec => []SleeperHasWaker
<1>1. Init => SleeperHasWaker
  BY DEF Init, SleeperHasWaker
<1>2. LogInv /\ SleeperHasWaker /\ [Next]_vars => SleeperHasWaker'
  BY SleeperStep
<1> QED BY LogInvariant, <1>1, <1>2, PTL DEF Spec

\* The log with its cache, pins, commits, crashes and recoveries is a disk on
\* which groups of whole operations become durable atomically.
THEOREM LogImplementsAtomicDisk == Spec => RefinesAtomicDisk
<1>1. LogInv /\ [Next]_vars => [Atomic!Next]_(Atomic!absVars)
  BY RefinementStep
<1> QED BY LogInvariant, RefinementInit, <1>1, PTL
        DEF Spec, RefinesAtomicDisk, Atomic!Spec

\* No operation that logs fewer distinct blocks than begin_op() reserves for it
\* meets a panic of log_write() or end_op(), whatever the other operations do
\* (log.c:154 and log.c:220-223).  "Fewer": log_write() looks at the size of
\* the log before it looks for an entry that absorbs the block, so an
\* operation that filled its whole reservation could not log a block again.
\* The largest operation of the file system, a write() of the most bytes that
\* filewrite() puts in one transaction (file.c:153), stays below.
THEOREM ReservationEnough ==
  ASSUME OpBlocks < MAXOPBLOCKS
  PROVE  Spec => []NoPanic
<1>1. Init => ReserveInv
  BY SetFactsHold, InitReserve, Zenon
<1>2. LogInv /\ LogInv' /\ ReserveInv /\ [Next]_vars => ReserveInv'
  BY SetFactsHold, ReserveStep, Zenon
<1>3. LogInv /\ ReserveInv => NoPanic
  BY SetFactsHold, RoomMeansNoPanic, Zenon
<1> QED BY LogInvariant, <1>1, <1>2, <1>3, PTL DEF Spec
=============================================================================
