------------------------------- MODULE Files -------------------------------
(***************************************************************************)
(* kernel/file.c and the calls of kernel/sysfile.c on descriptors: the file *)
(* table, the descriptors of the processes, and read() and write() on the   *)
(* contents of inodes.                                                      *)
(*                                                                         *)
(* A step is a stretch under ftable.lock, a round of writei() under ip->lock*)
(* or the local work of one process.  iref counts the references to an      *)
(* inode that the calls here own (the module Inodes has the others), and a  *)
(* pipe is its two flags (the module Pipe has its bytes).  fork() and       *)
(* exit() are what kfork() and kexit() do with descriptors.                 *)
(***************************************************************************)
EXTENDS Content, Sequences, SequencesExt

CONSTANTS NFILE, NOFILE,
          Pipe,        \* the pipes kmalloc() can make
          Device,      \* the inodes that are devices
          None,
          MaxFaults,   \* bound on the copies that fail
          Load         \* the loads: [calls |-> names of the calls that are
                       \* made, max |-> how many, n |-> sizes asked for,
                       \* len |-> bytes of the first inode, open |-> the
                       \* inodes of the files that are open at the start,
                       \* fds |-> the descriptors of the processes then]

File == 1..NFILE
Fd == 1..NOFILE
FirstInode == CHOOSE i \in Inum : \A j \in Inum : i <= j

VARIABLES load,    \* the load of this behaviour
          ftable,  \* the file table
          ofile,   \* p->ofile[]
          iref,    \* references to each inode from here
          ilock,   \* the process that holds ip->lock
          pipe,    \* the open ends of each pipe: subset of {"r", "w"}
          th,      \* what each process is doing
          calls, faults

tableVars == <<ftable, ofile, iref, ilock, pipe>>
vars == <<contentVars, load, tableVars, th, calls, faults>>

NoFile == [ref |-> 0, type |-> "none", obj |-> None, mode |-> {}, off |-> 0]
Idle == [pc |-> "idle", f |-> None, ip |-> None, trunc |-> FALSE, n |-> 0, n1 |-> 0,
         tot |-> 0, off |-> 0, close |-> <<>>, then |-> "idle", ff |-> NoFile]
Unused == [Idle EXCEPT !.pc = "unused"]

OpenFile(i) == [ref |-> 1, type |-> IF i \in Device THEN "device" ELSE "inode",
                obj |-> i, mode |-> {"r", "w"}, off |-> 0]

Holders(fd, f) == {<<p, d>> \in Proc \X Fd : fd[p][d] = f}

Init ==
  /\ load \in Load
  /\ ContentInit(mkfs(FirstInode, -100)[load.len], -100)
  /\ ftable = [f \in File |->
                 IF f > Len(load.open) THEN NoFile
                 ELSE [OpenFile(load.open[f]) EXCEPT !.ref = Cardinality(Holders(load.fds, f))]]
  /\ ofile = load.fds
  /\ iref = [i \in Inum |-> Cardinality({f \in DOMAIN load.open : load.open[f] = i})]
  /\ ilock = [i \in Inum |-> None]
  /\ pipe = [x \in Pipe |-> {}]
  /\ th = [p \in Proc |->
             IF p = 1 \/ \E d \in Fd : load.fds[p][d] # None THEN Idle ELSE Unused]
  /\ calls = 0 /\ faults = 0

Call(p, name) ==
  /\ th[p].pc = "idle"
  /\ name \in load.calls
  /\ calls < load.max
  /\ calls' = calls + 1
  /\ UNCHANGED load

Going(p, pc) == th[p].pc = pc /\ UNCHANGED <<load, calls>>

(***************************************************************************)
(* Files and descriptors.                                                   *)
(***************************************************************************)

FreeFiles == {f \in File : ftable[f].ref = 0}
filealloc == Min(FreeFiles)

FreeFds(p) == {d \in Fd : ofile[p][d] = None}
fdalloc(p) == Min(FreeFds(p))

\* Close these files one after the other, then go on.
Closing(t, fs, then) ==
  IF fs = <<>> THEN [Idle EXCEPT !.pc = then, !.ip = t.ip]
  ELSE [Idle EXCEPT !.pc = "close", !.close = fs, !.then = then, !.ip = t.ip]

\* fileclose(), under ftable.lock: the last reference frees the entry.
Emptied_KeepType(e) == [e EXCEPT !.ref = 0]
Emptied(e) == [e EXCEPT !.ref = 0, !.type = "none"]
fileclose(p) ==
  /\ Going(p, "close")
  /\ LET f == Head(th[p].close)
         rest == Closing(th[p], Tail(th[p].close), th[p].then)
         last == ftable[f].ref = 1
         ff == ftable[f]
     IN /\ ftable' = [ftable EXCEPT ![f] = IF last THEN Emptied(@) ELSE [@ EXCEPT !.ref = @ - 1]]
        /\ th' = [th EXCEPT ![p] = IF last /\ ff.type # "none"
                                   THEN [@ EXCEPT !.pc = "release", !.ff = ff] ELSE rest]
  /\ UNCHANGED <<contentVars, ofile, iref, ilock, pipe, faults>>

\* ... and then its pipe end or its inode is given back.
release(p) ==
  /\ Going(p, "release")
  /\ LET ff == th[p].ff
     IN IF ff.type = "pipe"
        THEN pipe' = [pipe EXCEPT ![ff.obj] = @ \ ff.mode] /\ UNCHANGED iref
        ELSE iref' = [iref EXCEPT ![ff.obj] = @ - 1] /\ UNCHANGED pipe
  /\ th' = [th EXCEPT ![p] = Closing(@, Tail(@.close), @.then)]
  /\ UNCHANGED <<contentVars, ftable, ofile, ilock, faults>>

sys_close(p, d) ==
  /\ Call(p, "close") /\ ofile[p][d] # None
  /\ ofile' = [ofile EXCEPT ![p][d] = None]
  /\ th' = [th EXCEPT ![p] = Closing(@, <<ofile[p][d]>>, "idle")]
  /\ UNCHANGED <<contentVars, ftable, iref, ilock, pipe, faults>>

sys_dup_Eager(p, d) ==
  /\ Call(p, "dup") /\ ofile[p][d] # None
  /\ ofile' = IF FreeFds(p) = {} THEN ofile ELSE [ofile EXCEPT ![p][fdalloc(p)] = ofile[p][d]]
  /\ ftable' = [ftable EXCEPT ![ofile[p][d]].ref = @ + 1]
  /\ UNCHANGED <<contentVars, iref, ilock, pipe, th, faults>>
sys_dup(p, d) ==
  /\ Call(p, "dup") /\ ofile[p][d] # None
  /\ FreeFds(p) # {}
  /\ ofile' = [ofile EXCEPT ![p][fdalloc(p)] = ofile[p][d]]
  /\ ftable' = [ftable EXCEPT ![ofile[p][d]].ref = @ + 1]
  /\ UNCHANGED <<contentVars, iref, ilock, pipe, th, faults>>

\* kfork(): filedup() for every descriptor.
kfork(p, q) ==
  /\ Call(p, "fork") /\ th[q].pc = "unused"
  /\ ofile' = [ofile EXCEPT ![q] = ofile[p]]
  /\ ftable' = [f \in File |->
       [ftable[f] EXCEPT !.ref = @ + Cardinality({d \in Fd : ofile[p][d] = f})]]
  /\ th' = [th EXCEPT ![q] = Idle]
  /\ UNCHANGED <<contentVars, iref, ilock, pipe, faults>>

\* kexit(): nobody else looks at ofile[] of a process, so it is cleared at once.
Descriptors(p) == SelectSeq([d \in Fd |-> ofile[p][d]], LAMBDA f : f # None)
kexit(p) ==
  /\ Call(p, "exit")
  /\ ofile' = [ofile EXCEPT ![p] = [d \in Fd |-> None]]
  /\ th' = [th EXCEPT ![p] = Closing(@, Descriptors(p), "unused")]
  /\ UNCHANGED <<contentVars, ftable, iref, ilock, pipe, faults>>

(***************************************************************************)
(* sys_open(), from the moment the inode is found and locked.               *)
(***************************************************************************)

open_inode(p, i) ==
  /\ ilock[i] = None
  /\ ilock' = [ilock EXCEPT ![i] = p]
  /\ iref' = [iref EXCEPT ![i] = @ + 1]
  /\ \E c \in {"open", "trunc"} :
       /\ Call(p, c)
       /\ th' = [th EXCEPT ![p] = [Idle EXCEPT !.pc = "open", !.ip = i, !.trunc = (c = "trunc")]]
  /\ UNCHANGED <<contentVars, ftable, ofile, pipe, faults>>

\* iunlockput(ip): no file, or no descriptor for it.
open_fails(p) ==
  /\ \/ Going(p, "open") /\ FreeFiles = {}
     \/ Going(p, "openput")
  /\ ilock' = [ilock EXCEPT ![th[p].ip] = None]
  /\ iref' = [iref EXCEPT ![th[p].ip] = @ - 1]
  /\ th' = [th EXCEPT ![p] = Idle]
  /\ UNCHANGED <<contentVars, ftable, ofile, pipe, faults>>

\* fdalloc() fails: the new file, which has no type yet, is closed first.
open_nofd(p) ==
  /\ Going(p, "open") /\ FreeFiles # {} /\ FreeFds(p) = {}
  /\ ftable' = [ftable EXCEPT ![filealloc].ref = 1]
  /\ th' = [th EXCEPT ![p] = Closing(@, <<filealloc>>, "openput")]
  /\ UNCHANGED <<contentVars, ofile, iref, ilock, pipe, faults>>

open_done(p) ==
  /\ Going(p, "open") /\ FreeFiles # {} /\ FreeFds(p) # {}
  /\ LET i == th[p].ip
         trunc == th[p].trunc /\ i \notin Device
     IN /\ ftable' = [ftable EXCEPT ![filealloc] = OpenFile(i)]
        /\ ofile' = [ofile EXCEPT ![p][fdalloc(p)] = filealloc]
        /\ ilock' = [ilock EXCEPT ![i] = None]
        /\ Update(p, IF trunc THEN itrunc(Now, i) ELSE Now)
        /\ bytes' = IF trunc THEN [bytes EXCEPT ![i] = [k \in Position |-> {}]] ELSE bytes
  /\ th' = [th EXCEPT ![p] = [Idle EXCEPT !.pc = "end_op"]]
  /\ UNCHANGED <<iref, pipe, faults>>

(***************************************************************************)
(* sys_pipe() and pipealloc().                                              *)
(***************************************************************************)

\* The first file; without it the call fails at once.
pipe_first(p) ==
  /\ Call(p, "pipe") /\ FreeFiles # {}
  /\ ftable' = [ftable EXCEPT ![filealloc].ref = 1]
  /\ th' = [th EXCEPT ![p] = [Idle EXCEPT !.pc = "pipe", !.f = filealloc]]
  /\ UNCHANGED <<contentVars, ofile, iref, ilock, pipe, faults>>

FreePipes == {x \in Pipe : pipe[x] = {}}

\* No second file, or no memory: both files are closed, without a type.
pipe_bad(p) ==
  /\ Going(p, "pipe")
  /\ IF FreeFiles = {}
     THEN /\ UNCHANGED ftable
          /\ th' = [th EXCEPT ![p] = Closing(@, <<@.f>>, "idle")]
     ELSE /\ FreePipes = {}
          /\ ftable' = [ftable EXCEPT ![filealloc].ref = 1]
          /\ th' = [th EXCEPT ![p] = Closing(@, <<@.f, filealloc>>, "idle")]
  /\ UNCHANGED <<contentVars, ofile, iref, ilock, pipe, faults>>

\* The pipe is made; then the descriptors, or copyout() of them, may fail.
End(x, mode) == [ref |-> 1, type |-> "pipe", obj |-> x, mode |-> {mode}, off |-> 0]
pipe_done(p) ==
  /\ Going(p, "pipe") /\ FreeFiles # {}
  /\ \E x \in FreePipes :
       /\ pipe' = [pipe EXCEPT ![x] = {"r", "w"}]
       /\ ftable' = [ftable EXCEPT ![th[p].f] = End(x, "r"), ![filealloc] = End(x, "w")]
  /\ \/ /\ Cardinality(FreeFds(p)) > 1
        /\ LET d == fdalloc(p)
           IN ofile' = [ofile EXCEPT ![p] = [@ EXCEPT ![d] = th[p].f,
                                                      ![Min(FreeFds(p) \ {d})] = filealloc]]
        /\ th' = [th EXCEPT ![p] = Idle]
        /\ UNCHANGED faults
     \/ /\ \/ Cardinality(FreeFds(p)) <= 1 /\ UNCHANGED faults
           \/ faults < MaxFaults /\ faults' = faults + 1
        /\ th' = [th EXCEPT ![p] = Closing(@, <<@.f, filealloc>>, "idle")]
        /\ UNCHANGED ofile
  /\ UNCHANGED <<contentVars, iref, ilock>>

(***************************************************************************)
(* fileread() and filewrite() on an inode.                                  *)
(***************************************************************************)

OnInode(p, d, mode) ==
  ofile[p][d] # None /\ ftable[ofile[p][d]].type = "inode" /\ mode \in ftable[ofile[p][d]].mode

\* Under ip->lock from one end to the other; a failing copyout() leaves off.
sys_read(p, d, n) ==
  /\ Call(p, "read") /\ OnInode(p, d, "r")
  /\ LET f == ofile[p][d]
         i == ftable[f].obj
     IN /\ ilock[i] = None
        /\ ftable' = [ftable EXCEPT ![f].off = @ + Readable(i, @, n)]
  /\ UNCHANGED <<contentVars, ofile, iref, ilock, pipe, th, faults>>

sys_write(p, d, n) ==
  /\ Call(p, "write") /\ OnInode(p, d, "w")
  /\ th' = [th EXCEPT ![p] = [Idle EXCEPT !.pc = "write", !.f = ofile[p][d],
                                          !.ip = ftable[ofile[p][d]].obj, !.n = n]]
  /\ UNCHANGED <<contentVars, tableVars, faults>>

\* A piece of the write(): small enough for the log.
WriteMax_Whole == (MAXOPBLOCKS - 1 - 1) * BSIZE
WriteMax == ((MAXOPBLOCKS - 1 - 1 - 2) \div 2) * BSIZE

\* begin_op(), ilock(), and the checks of writei() at f->off.
write_begin(p) ==
  /\ Going(p, "write") /\ ilock[th[p].ip] = None
  /\ LET n1 == Min({th[p].n, WriteMax})
         off == ftable[th[p].f].off
     IN IF Writable(th[p].ip, off, n1)
        THEN /\ ilock' = [ilock EXCEPT ![th[p].ip] = p]
             /\ th' = [th EXCEPT ![p].pc = "writei", ![p].off = off, ![p].n1 = n1]
        ELSE /\ UNCHANGED ilock
             /\ th' = [th EXCEPT ![p] = Idle]
  /\ UNCHANGED <<contentVars, ftable, ofile, iref, pipe, faults>>

\* What the round changes of the file, where the shared offset says it goes.
Written(p, m) == {k \in Position : k - ftable[th[p].f].off - th[p].tot \in 0..m - 1}

write_round(p) ==
  /\ Going(p, "writei") /\ th[p].tot < th[p].n1
  /\ LET t == th[p]
         off == t.off + t.tot
         s == bmap(Now, t.ip, off \div BSIZE)
         m == Round(off, t.n1 - t.tot)
     IN \/ /\ s.addr = 0
           /\ Update(p, s)
           /\ th' = [th EXCEPT ![p].pc = "stop"]
           /\ UNCHANGED <<bytes, faults>>
        \/ /\ s.addr # 0
           /\ Update(p, writei_copied(s, off, m, -p))
           /\ th' = [th EXCEPT ![p].tot = @ + m]
           /\ bytes' = [bytes EXCEPT ![t.ip] = [k \in Position |->
                          IF k \in Written(p, m) THEN {-p} ELSE @[k]]]
           /\ UNCHANGED faults
        \/ /\ s.addr # 0 /\ faults < MaxFaults
           /\ faults' = faults + 1
           /\ \E r \in 0..m - 1 :
                /\ Update(p, writei_faulted(s, off, r, -p))
                /\ bytes' = [bytes EXCEPT ![t.ip] = [k \in Position |->
                               IF k \in Written(p, r) THEN @[k] \cup {-p} ELSE @[k]]]
           /\ th' = [th EXCEPT ![p].pc = "stop"]
  /\ UNCHANGED tableVars

\* The end of writei(): the size, the inode, the offset; then iunlock().
write_end(p) ==
  /\ \/ Going(p, "writei") /\ th[p].tot = th[p].n1
     \/ Going(p, "stop")
  /\ LET t == th[p]
     IN /\ Update(p, writei_done(Now, t.ip, t.off + t.tot))
        /\ ftable' = [ftable EXCEPT ![t.f].off = @ + t.tot]
        /\ ilock' = [ilock EXCEPT ![t.ip] = None]
        /\ th' = [th EXCEPT ![p] =
             IF t.tot = t.n1 /\ t.n > t.n1
             THEN [Idle EXCEPT !.pc = "end_op", !.then = "write", !.f = t.f, !.ip = t.ip,
                               !.n = t.n - t.n1]
             ELSE [Idle EXCEPT !.pc = "end_op"]]
  /\ UNCHANGED <<bytes, ofile, iref, pipe, faults>>

end_op(p) ==
  /\ Going(p, "end_op")
  /\ logged' = [logged EXCEPT ![p] = {}]
  /\ th' = [th EXCEPT ![p].pc = th[p].then, ![p].then = "idle"]
  /\ UNCHANGED <<addrs, size, used, data, disk, bytes, tableVars, faults>>

Step(p) ==
  \/ fileclose(p) \/ release(p)
  \/ open_fails(p) \/ open_nofd(p) \/ open_done(p)
  \/ pipe_first(p) \/ pipe_bad(p) \/ pipe_done(p)
  \/ write_begin(p) \/ write_round(p) \/ write_end(p) \/ end_op(p)
  \/ kexit(p) \/ \E q \in Proc : kfork(p, q)
  \/ \E d \in Fd : sys_close(p, d) \/ sys_dup(p, d)
  \/ \E d \in Fd, n \in load.n : sys_read(p, d, n) \/ sys_write(p, d, n)
  \/ \E i \in Inum : open_inode(p, i)

Recycle == \E b \in Block : recycle(b) /\ UNCHANGED <<load, tableVars, th, calls, faults>>

Next == Recycle \/ \E p \in Proc : Step(p)

Spec == Init /\ [][Next]_vars

(***************************************************************************)
(* Properties.                                                              *)
(***************************************************************************)

\* References to a file that a call is about to drop or to hand out.
InHand(f) ==
  LET queued(p) == Cardinality({k \in DOMAIN th[p].close : th[p].close[k] = f})
                   - (IF th[p].pc = "release" /\ Head(th[p].close) = f THEN 1 ELSE 0)
      new(p) == IF th[p].pc = "pipe" /\ th[p].f = f THEN 1 ELSE 0
      both(p) == queued(p) + new(p)
  IN MapThenSumSet(both, Proc)

\* The count of a file is the number of descriptors and calls that hold it,
\* through dup(), fork(), exit() and every error path of open() and pipe(): it
\* is neither freed while in use nor lost to the table.
FilesExact == \A f \in File : ftable[f].ref = Cardinality(Holders(ofile, f)) + InHand(f)

Refers(e, o) == e.type \in {"inode", "device"} /\ e.obj = o
IsEnd(e, x, mode) == e.type = "pipe" /\ e.obj = x /\ mode \in e.mode
Releasing(p) == th[p].pc = "release"

\* What a file refers to is given back exactly once, after its last close,
\* however fileclose() and filealloc() interleave: an inode has a reference
\* for each open file and each call at work on it, and a pipe end is open as
\* long as a file is.
ObjectsExact ==
  /\ \A i \in Inum :
       iref[i] = Cardinality({f \in File : ftable[f].ref > 0 /\ Refers(ftable[f], i)})
                 + Cardinality({p \in Proc : Releasing(p) /\ Refers(th[p].ff, i)})
                 + Cardinality({p \in Proc : ilock[i] = p /\ (th[p].pc \in {"open", "openput"}
                                                              \/ th[p].then = "openput")})
  /\ \A x \in Pipe, mode \in {"r", "w"} :
       mode \in pipe[x] <=>
         \/ \E f \in File : ftable[f].ref > 0 /\ IsEnd(ftable[f], x, mode)
         \/ \E p \in Proc : Releasing(p) /\ IsEnd(th[p].ff, x, mode)
=============================================================================
