------------------------------- MODULE Inodes -------------------------------
(***************************************************************************)
(* The inode layer and the directories of kernel/fs.c, and the system calls *)
(* of kernel/sysfile.c that work on names: open, mkdir, mknod, link,        *)
(* unlink, chdir, and close (fileclose() of kernel/file.c).                 *)
(*                                                                         *)
(* A thread in a call holds references, which keep an inode in the table,   *)
(* and sleep locks.  A stretch of a call that holds one inode's lock and    *)
(* then lets it go is one step; a call that takes a second lock waits for   *)
(* it in a step of its own.  The log makes the calls of one group atomic    *)
(* (module Log): the disk a crash leaves is the one the last group left,    *)
(* and a group is committed when the last of its calls ends.  The contents  *)
(* of files are left to module Files; that of a directory is its entries.   *)
(***************************************************************************)
EXTENDS Integers, Sequences, FiniteSets, FiniteSetsExt, TLC

CONSTANTS Thread, None,
          Name,         \* names of directory entries
          Path,         \* [abs |-> from the root or not, elems |-> its names]
          Inum,         \* 1..n; 1 is the root directory
          Disk,         \* the inodes on the disk at the start, one of these
          Call,         \* the system calls the threads make
          MayFail,      \* may the disk or the file table be full?
          MaxCalls,     \* bound on the calls made
          MaxCrashes    \* bound on the crashes

ROOTINO == 1

ASSUME InodesConstants ==
  /\ None \notin Thread /\ ".." \notin Name
  /\ Inum = 1..Cardinality(Inum)
  /\ MayFail \in BOOLEAN /\ MaxCalls \in Nat /\ MaxCrashes \in Nat

VARIABLES
  dinode,   \* the inodes and directories on the disk, through the log
  saved,    \* the disk as of the last commit
  inode,    \* the inode table: [valid, type, nlink] of the entry for an inum
  ref,      \* its ip->ref; 0: the inum has no entry
  lock,     \* the thread that holds ip->lock
  th,       \* the threads: where each is, and its variables
  file,     \* the inode of the file each thread has open, or 0
  cwd,      \* its p->cwd
  boot,     \* the inum ireclaim() looks at next, or 0 once the system is up
  calls,    \* calls made so far
  crashes   \* crashes so far

fsVars == <<dinode, saved, inode, ref, lock>>
vars == <<dinode, saved, inode, ref, lock, th, file, cwd, boot, calls, crashes>>

NoEntries == [n \in Name |-> 0]
FreeInode == [type |-> "free", nlink |-> 0, ents |-> NoEntries, up |-> 0]
Idle == [pc |-> "idle", call |-> "none", path |-> <<>>, new |-> None,
         parent |-> FALSE, cur |-> 0, ip |-> 0, dp |-> 0, name |-> "none",
         put |-> 0, then |-> "none"]

\* What mkfs makes: the root directory.
mkfs == [i \in Inum |-> IF i = ROOTINO
           THEN [FreeInode EXCEPT !.type = "dir", !.nlink = 1, !.up = ROOTINO]
           ELSE FreeInode]

\* Memory at boot: the threads start in the root directory.
NoTable == [i \in Inum |-> [valid |-> FALSE, type |-> "free", nlink |-> 0]]
BootRef == [i \in Inum |-> IF i = ROOTINO THEN Cardinality(Thread) ELSE 0]

Init ==
  /\ dinode \in Disk
  /\ saved = dinode
  /\ inode = NoTable /\ ref = BootRef /\ lock = [i \in Inum |-> None]
  /\ th = [t \in Thread |-> Idle]
  /\ file = [t \in Thread |-> 0]
  /\ cwd = [t \in Thread |-> ROOTINO]
  /\ boot = 0 /\ calls = 0 /\ crashes = 0

(***************************************************************************)
(* The inode table.                                                         *)
(***************************************************************************)

Goto(t, r) == th' = [th EXCEPT ![t] = r @@ th[t]]

\* ilock(): waits for the lock, and reads the inode if it is not valid.  It
\* panics when the inode read is free.
Entry(i) == IF inode[i].valid THEN inode[i]
            ELSE [valid |-> TRUE, type |-> dinode[i].type, nlink |-> dinode[i].nlink]
MayLock(i) == lock[i] = None /\ Entry(i).type # "free"
Loaded(i) == [inode EXCEPT ![i] = Entry(i)]

\* iget(), with table for the rest of the step's effect on the table: a new
\* entry starts out invalid.
iget(table, i) ==
  /\ ref' = [ref EXCEPT ![i] = @ + 1]
  /\ inode' = IF ref[i] = 0 THEN [table EXCEPT ![i] = NoTable[i]] ELSE table

\* ref-- : an entry without references is free, and its contents forgotten.
iput_ref(i) ==
  /\ ref' = [ref EXCEPT ![i] = @ - 1]
  /\ inode' = IF ref[i] = 1 THEN [inode EXCEPT ![i] = NoTable[i]] ELSE inode

\* i's link count is n more, in the table and with iupdate() on the disk.
Relink(i, n) ==
  /\ inode' = [inode EXCEPT ![i] = [Entry(i) EXCEPT !.nlink = @ + n]]
  /\ dinode' = [dinode EXCEPT ![i].nlink = Entry(i).nlink + n]

\* iput(), called with next as the place to go on; and dp is done with.
PutNext(i, next) == [pc |-> "put", put |-> i, then |-> next]

NoDp == [dp |-> 0, name |-> "none"]

Last(i) == ref[i] = 1 /\ inode[i].valid /\ inode[i].nlink = 0
iput(t) ==
  LET i == th[t].put IN
  /\ th[t].pc = "put"
  /\ IF Last(i)
     THEN /\ lock[i] = None
          /\ lock' = [lock EXCEPT ![i] = t]
          /\ Goto(t, [pc |-> "free"])
          /\ UNCHANGED <<ref, inode>>
     ELSE /\ iput_ref(i)
          /\ Goto(t, [pc |-> th[t].then, put |-> 0, then |-> "none"])
          /\ lock' = lock
  /\ UNCHANGED <<dinode, saved, file, cwd, boot, calls, crashes>>

\* itrunc(), type = 0, iupdate(), valid = 0, with ip->lock held ...
iput_free(t) ==
  LET i == th[t].put IN
  /\ th[t].pc = "free"
  /\ dinode' = [dinode EXCEPT ![i] = FreeInode]
  /\ inode' = [inode EXCEPT ![i] = NoTable[i]]
  /\ lock' = [lock EXCEPT ![i] = None]
  /\ Goto(t, [pc |-> "drop"])
  /\ UNCHANGED <<saved, ref, file, cwd, boot, calls, crashes>>

\* ... and then the reference: ialloc() may have handed i out meanwhile.
iput_drop(t) ==
  /\ th[t].pc = "drop"
  /\ iput_ref(th[t].put)
  /\ Goto(t, [pc |-> th[t].then, put |-> 0, then |-> "none"])
  /\ UNCHANGED <<dinode, saved, lock, file, cwd, boot, calls, crashes>>

(***************************************************************************)
(* A call begins with begin_op() and the first iget() or idup() of namex(), *)
(* or with fileclose(); it ends with end_op().                              *)
(***************************************************************************)

Start(t, p) == IF p.abs THEN ROOTINO ELSE cwd[t]
Parents == {"create", "mkdir", "mknod", "unlink"}   \* the calls that use nameiparent()

begin_op(t) ==
  /\ boot = 0 /\ th[t].pc = "idle"
  /\ \E c \in Call \ {"close"}, p \in Path :
     \E q \in IF c = "link" THEN Path ELSE {None} :
       /\ c \in {"open", "create"} => file[t] = 0
       /\ Goto(t, [pc |-> "walk", call |-> c, path |-> p.elems, new |-> q,
                   parent |-> c \in Parents, cur |-> Start(t, p)])
       /\ iget(inode, Start(t, p))
  /\ calls < MaxCalls /\ calls' = calls + 1
  /\ UNCHANGED <<dinode, saved, lock, file, cwd, boot, crashes>>

fileclose(t) ==
  /\ boot = 0 /\ th[t].pc = "idle" /\ "close" \in Call
  /\ file[t] # 0
  /\ file' = [file EXCEPT ![t] = 0]
  /\ Goto(t, [call |-> "close"] @@ PutNext(file[t], "end"))
  /\ UNCHANGED <<fsVars, cwd, boot, calls, crashes>>

end_op(t) ==
  /\ th[t].pc = "end"
  /\ saved' = IF \A u \in Thread \ {t} : th[u].pc = "idle" THEN dinode ELSE saved
  /\ cwd' = IF th[t].call = "chdir" /\ th[t].ip # 0
            THEN [cwd EXCEPT ![t] = th[t].ip] ELSE cwd
  /\ Goto(t, Idle)
  /\ UNCHANGED <<dinode, inode, ref, lock, file, boot, calls, crashes>>

(***************************************************************************)
(* namex(), and dirlookup().                                                *)
(***************************************************************************)

Lookup(d, n) == IF n = ".." THEN dinode[d].up ELSE dinode[d].ents[n]

\* Where a call goes on when its path leads nowhere.
Nowhere(t) == IF th[t].call = "link" /\ th[t].parent THEN "link_bad" ELSE "end"

\* The element n of the path is looked up in the directory d, which is locked
\* and let go again.
Walking(t, d, n) ==
  /\ th[t].pc = "walk" /\ th[t].path # <<>>
  /\ d = th[t].cur /\ n = Head(th[t].path)
  /\ MayLock(d)
  /\ UNCHANGED <<dinode, saved, lock, file, cwd, boot, calls, crashes>>
AtParent(t) == th[t].parent /\ Len(th[t].path) = 1

walk_down(t, d, n) ==
  /\ Walking(t, d, n)
  /\ Entry(d).type = "dir" /\ ~AtParent(t) /\ Lookup(d, n) # 0
  /\ Goto(t, [cur |-> Lookup(d, n), path |-> Tail(th[t].path)] @@ PutNext(d, "walk"))
  /\ iget(Loaded(d), Lookup(d, n))

walk_parent(t, d, n) ==
  /\ Walking(t, d, n)
  /\ Entry(d).type = "dir" /\ AtParent(t)
  /\ Goto(t, [pc |-> th[t].call, cur |-> 0, dp |-> d, path |-> <<>>, name |-> n])
  /\ inode' = Loaded(d) /\ ref' = ref

walk_nowhere(t, d, n) ==
  /\ Walking(t, d, n)
  /\ Entry(d).type # "dir" \/ (~AtParent(t) /\ Lookup(d, n) = 0)
  /\ Goto(t, [cur |-> 0, path |-> <<>>] @@ PutNext(d, Nowhere(t)))
  /\ inode' = Loaded(d) /\ ref' = ref

\* The path is used up: namei() has its inode, nameiparent() has no name.
walk_end(t) ==
  /\ th[t].pc = "walk" /\ th[t].path = <<>>
  /\ Goto(t, IF th[t].parent THEN [cur |-> 0] @@ PutNext(th[t].cur, Nowhere(t))
             ELSE [pc |-> th[t].call, cur |-> 0, ip |-> th[t].cur])
  /\ UNCHANGED <<fsVars, file, cwd, boot, calls, crashes>>

(***************************************************************************)
(* create(), for open(O_CREATE), mkdir and mknod.                           *)
(***************************************************************************)

Creating(t) == th[t].call \in {"create", "mkdir", "mknod"}
Type(t) == IF th[t].call = "mkdir" THEN "dir" ELSE "file"

\* ilock(dp), and the name is there: dp goes.
create_found(t) ==
  LET d == th[t].dp
      i == Lookup(d, th[t].name) IN
  /\ Creating(t) /\ th[t].pc = th[t].call
  /\ MayLock(d) /\ i # 0
  /\ iget(Loaded(d), i)
  /\ Goto(t, [ip |-> i] @@ NoDp @@ PutNext(d, "create_existing"))
  /\ UNCHANGED <<dinode, saved, lock, file, cwd, boot, calls, crashes>>

\* open(O_CREATE) of a file that exists succeeds; mkdir and mknod do not.
create_existing(t) ==
  LET i == th[t].ip IN
  /\ th[t].pc = "create_existing"
  /\ MayLock(i)
  /\ inode' = Loaded(i)
  /\ IF th[t].call = "create" /\ Entry(i).type = "file"
     THEN lock' = [lock EXCEPT ![i] = t] /\ Goto(t, [pc |-> "opening"])
     ELSE lock' = lock /\ Goto(t, [ip |-> 0] @@ PutNext(i, "end"))
  /\ UNCHANGED <<dinode, saved, ref, file, cwd, boot, calls, crashes>>

FreeInodes == {i \in Inum : dinode[i].type = "free"}

\* ilock(dp), and ialloc() marks an inode on the disk, or finds none.
create_ialloc(t) ==
  LET d == th[t].dp IN
  /\ Creating(t) /\ th[t].pc = th[t].call
  /\ MayLock(d) /\ Lookup(d, th[t].name) = 0
  /\ inode' = Loaded(d)
  /\ IF FreeInodes = {}
     THEN /\ Goto(t, NoDp @@ PutNext(d, "end"))
          /\ UNCHANGED <<dinode, lock>>
     ELSE /\ dinode' = [dinode EXCEPT ![Min(FreeInodes)] =
                          [FreeInode EXCEPT !.type = Type(t)]]
          /\ lock' = [lock EXCEPT ![d] = t]
          /\ Goto(t, [pc |-> "create_iget", ip |-> Min(FreeInodes)])
  /\ UNCHANGED <<saved, ref, file, cwd, boot, calls, crashes>>

\* ialloc()'s iget(), under itable.lock only.
create_iget(t) ==
  /\ th[t].pc = "create_iget"
  /\ iget(inode, th[t].ip)
  /\ Goto(t, [pc |-> "create_link"])
  /\ UNCHANGED <<dinode, saved, lock, file, cwd, boot, calls, crashes>>

\* ilock(ip), nlink = 1, the entries; dp's lock and reference go.
create_link(t) ==
  LET d == th[t].dp
      i == th[t].ip
      isdir == Type(t) = "dir" IN
  /\ th[t].pc = "create_link"
  /\ MayLock(i)
  /\ dinode' = [dinode EXCEPT
                  ![i] = [@ EXCEPT !.nlink = 1, !.up = IF isdir THEN d ELSE 0],
                  ![d] = [@ EXCEPT !.ents[th[t].name] = i,
                                   !.nlink = IF isdir THEN inode[d].nlink + 1 ELSE @]]
  /\ inode' = [inode EXCEPT ![i] = [Entry(i) EXCEPT !.nlink = 1],
                            ![d].nlink = IF isdir THEN @ + 1 ELSE @]
  /\ lock' = [lock EXCEPT ![d] = None, ![i] = t]
  /\ Goto(t, NoDp @@ PutNext(d, "opening"))
  /\ UNCHANGED <<saved, ref, file, cwd, boot, calls, crashes>>

\* A dirlink() fails: nlink = 0, ip's lock and reference go, then dp's.
create_fails(t) ==
  LET i == th[t].ip IN
  /\ MayFail
  /\ th[t].pc = "create_link"
  /\ MayLock(i)
  /\ dinode' = [dinode EXCEPT ![i].nlink = 0]
  /\ inode' = [inode EXCEPT ![i] = [Entry(i) EXCEPT !.nlink = 0]]
  /\ Goto(t, [ip |-> 0] @@ PutNext(i, "unlock_dp"))
  /\ UNCHANGED <<saved, ref, lock, file, cwd, boot, calls, crashes>>

unlock_dp_Kept(t) ==
  LET d == th[t].dp IN
  /\ th[t].pc = "unlock_dp"
  /\ Goto(t, NoDp @@ PutNext(d, "end"))
  /\ UNCHANGED <<fsVars, file, cwd, boot, calls, crashes>>
unlock_dp(t) ==
  LET d == th[t].dp IN
  /\ th[t].pc = "unlock_dp"
  /\ lock' = [lock EXCEPT ![d] = None]
  /\ Goto(t, NoDp @@ PutNext(d, "end"))
  /\ UNCHANGED <<dinode, saved, inode, ref, file, cwd, boot, calls, crashes>>

\* create() has returned its locked inode: open() puts it in a file, mkdir()
\* and mknod() let go of it; so does open() when the file table is full.
opening(t) ==
  LET i == th[t].ip IN
  /\ th[t].pc = "opening"
  /\ lock' = [lock EXCEPT ![i] = None]
  /\ \/ /\ th[t].call = "create"
        /\ file' = [file EXCEPT ![t] = i]
        /\ Goto(t, [pc |-> "end", ip |-> 0])
     \/ /\ th[t].call # "create" \/ MayFail
        /\ file' = file
        /\ Goto(t, [ip |-> 0] @@ PutNext(i, "end"))
  /\ UNCHANGED <<dinode, saved, inode, ref, cwd, boot, calls, crashes>>

(***************************************************************************)
(* open() without O_CREATE, and chdir(): namei(), then a look at the inode. *)
(***************************************************************************)

\* A directory opens for reading only; the file table may be full.
open(t) ==
  LET i == th[t].ip IN
  /\ th[t].pc = "open"
  /\ MayLock(i)
  /\ inode' = Loaded(i)
  /\ \/ /\ file' = [file EXCEPT ![t] = i]
        /\ Goto(t, [pc |-> "end", ip |-> 0])
     \/ /\ Entry(i).type = "dir" \/ MayFail
        /\ file' = file
        /\ Goto(t, [ip |-> 0] @@ PutNext(i, "end"))
  /\ UNCHANGED <<dinode, saved, ref, lock, cwd, boot, calls, crashes>>

\* The old directory is let go before end_op(), and p->cwd set after it.
chdir(t) ==
  LET i == th[t].ip IN
  /\ th[t].pc = "chdir"
  /\ MayLock(i)
  /\ inode' = Loaded(i)
  /\ IF Entry(i).type = "dir"
     THEN Goto(t, PutNext(cwd[t], "end")) /\ cwd' = [cwd EXCEPT ![t] = 0]
     ELSE Goto(t, [ip |-> 0] @@ PutNext(i, "end")) /\ cwd' = cwd
  /\ UNCHANGED <<dinode, saved, ref, lock, file, boot, calls, crashes>>

(***************************************************************************)
(* link().                                                                  *)
(***************************************************************************)

\* The count goes up first; then namex() looks for the new name's directory.
link_NoCount(t) ==
  LET i == th[t].ip IN
  /\ th[t].pc = "link" /\ ~th[t].parent
  /\ MayLock(i)
  /\ Goto(t, IF Entry(i).type = "dir" THEN [ip |-> 0] @@ PutNext(i, "end")
             ELSE [pc |-> "link_walk"])
  /\ inode' = Loaded(i)
  /\ UNCHANGED <<dinode, saved, ref, lock, file, cwd, boot, calls, crashes>>
link(t) ==
  LET i == th[t].ip IN
  /\ th[t].pc = "link" /\ ~th[t].parent
  /\ MayLock(i)
  /\ IF Entry(i).type = "dir"
     THEN /\ Goto(t, [ip |-> 0] @@ PutNext(i, "end"))
          /\ inode' = Loaded(i)
          /\ dinode' = dinode
     ELSE /\ Goto(t, [pc |-> "link_walk"])
          /\ Relink(i, 1)
  /\ UNCHANGED <<saved, ref, lock, file, cwd, boot, calls, crashes>>

link_walk(t) ==
  /\ th[t].pc = "link_walk"
  /\ Goto(t, [pc |-> "walk", path |-> th[t].new.elems, parent |-> TRUE,
              cur |-> Start(t, th[t].new)])
  /\ iget(inode, Start(t, th[t].new))
  /\ UNCHANGED <<dinode, saved, lock, file, cwd, boot, calls, crashes>>

\* ilock(dp), and dirlink(): the entry is made, or the disk is full ...
link_entry(t) ==
  LET d == th[t].dp IN
  /\ th[t].pc = "link" /\ th[t].parent
  /\ MayLock(d) /\ Lookup(d, th[t].name) = 0
  /\ inode' = Loaded(d)
  /\ \/ /\ dinode' = [dinode EXCEPT ![d].ents[th[t].name] = th[t].ip]
        /\ Goto(t, NoDp @@ PutNext(d, "link_done"))
     \/ /\ MayFail
        /\ dinode' = dinode
        /\ Goto(t, NoDp @@ PutNext(d, "link_bad"))
  /\ UNCHANGED <<saved, ref, lock, file, cwd, boot, calls, crashes>>

\* ... or the name is there: dirlink() puts the inode dirlookup() found.
link_exists_NoPut(t) ==
  LET d == th[t].dp
      i == Lookup(d, th[t].name) IN
  /\ th[t].pc = "link" /\ th[t].parent
  /\ MayLock(d) /\ i # 0
  /\ iget(Loaded(d), i)
  /\ lock' = [lock EXCEPT ![d] = t]
  /\ Goto(t, [pc |-> "link_unlock"])
  /\ UNCHANGED <<dinode, saved, file, cwd, boot, calls, crashes>>
link_exists(t) ==
  LET d == th[t].dp
      i == Lookup(d, th[t].name) IN
  /\ th[t].pc = "link" /\ th[t].parent
  /\ MayLock(d) /\ i # 0
  /\ iget(Loaded(d), i)
  /\ lock' = [lock EXCEPT ![d] = t]
  /\ Goto(t, PutNext(i, "link_unlock"))
  /\ UNCHANGED <<dinode, saved, file, cwd, boot, calls, crashes>>

link_unlock(t) ==
  LET d == th[t].dp IN
  /\ th[t].pc = "link_unlock"
  /\ lock' = [lock EXCEPT ![d] = None]
  /\ Goto(t, NoDp @@ PutNext(d, "link_bad"))
  /\ UNCHANGED <<dinode, saved, inode, ref, file, cwd, boot, calls, crashes>>

link_done(t) ==
  /\ th[t].pc = "link_done"
  /\ Goto(t, [ip |-> 0] @@ PutNext(th[t].ip, "end"))
  /\ UNCHANGED <<fsVars, file, cwd, boot, calls, crashes>>

\* bad: the count goes down again.
link_bad(t) ==
  LET i == th[t].ip IN
  /\ th[t].pc = "link_bad"
  /\ MayLock(i)
  /\ Relink(i, -1)
  /\ Goto(t, [ip |-> 0] @@ PutNext(i, "end"))
  /\ UNCHANGED <<saved, ref, lock, file, cwd, boot, calls, crashes>>

(***************************************************************************)
(* unlink().                                                                *)
(***************************************************************************)

\* ilock(dp); the name is "..", or not there.
unlink_bad(t) ==
  LET d == th[t].dp IN
  /\ th[t].pc = "unlink"
  /\ MayLock(d)
  /\ th[t].name = ".." \/ Lookup(d, th[t].name) = 0
  /\ inode' = Loaded(d)
  /\ Goto(t, NoDp @@ PutNext(d, "end"))
  /\ UNCHANGED <<dinode, saved, ref, lock, file, cwd, boot, calls, crashes>>

unlink(t) ==
  LET d == th[t].dp
      i == Lookup(d, th[t].name) IN
  /\ th[t].pc = "unlink"
  /\ MayLock(d)
  /\ th[t].name # ".." /\ i # 0
  /\ iget(Loaded(d), i)
  /\ lock' = [lock EXCEPT ![d] = t]
  /\ Goto(t, [pc |-> "unlink_ip", ip |-> i])
  /\ UNCHANGED <<dinode, saved, file, cwd, boot, calls, crashes>>

isdirempty(i) == dinode[i].ents = NoEntries

\* ilock(ip), which panics on a count below 1; a directory must be empty.
unlink_nonempty(t) ==
  LET i == th[t].ip IN
  /\ th[t].pc = "unlink_ip"
  /\ MayLock(i) /\ Entry(i).nlink >= 1
  /\ Entry(i).type = "dir" /\ ~isdirempty(i)
  /\ inode' = Loaded(i)
  /\ Goto(t, [ip |-> 0] @@ PutNext(i, "unlock_dp"))
  /\ UNCHANGED <<dinode, saved, ref, lock, file, cwd, boot, calls, crashes>>

\* The entry goes, and dp; then ip's count.
unlink_ip(t) ==
  LET d == th[t].dp
      i == th[t].ip
      n == IF Entry(i).type = "dir" THEN 1 ELSE 0 IN
  /\ th[t].pc = "unlink_ip"
  /\ MayLock(i) /\ Entry(i).nlink >= 1
  /\ Entry(i).type = "dir" => isdirempty(i)
  /\ dinode' = [dinode EXCEPT ![d].ents[th[t].name] = 0, ![d].nlink = @ - n]
  /\ inode' = [inode EXCEPT ![i] = Entry(i), ![d].nlink = @ - n]
  /\ lock' = [lock EXCEPT ![d] = None, ![i] = t]
  /\ Goto(t, NoDp @@ PutNext(d, "unlink_count"))
  /\ UNCHANGED <<saved, ref, file, cwd, boot, calls, crashes>>

unlink_count(t) ==
  LET i == th[t].ip IN
  /\ th[t].pc = "unlink_count"
  /\ Relink(i, -1)
  /\ lock' = [lock EXCEPT ![i] = None]
  /\ Goto(t, [ip |-> 0] @@ PutNext(i, "end"))
  /\ UNCHANGED <<saved, ref, file, cwd, boot, calls, crashes>>

(***************************************************************************)
(* A crash, and ireclaim() at the next boot.                                *)
(***************************************************************************)

Crash ==
  /\ crashes < MaxCrashes
  /\ crashes' = crashes + 1
  /\ dinode' = saved
  /\ inode' = NoTable /\ ref' = BootRef /\ lock' = [i \in Inum |-> None]
  /\ th' = [t \in Thread |-> Idle]
  /\ file' = [t \in Thread |-> 0]
  /\ cwd' = [t \in Thread |-> ROOTINO]
  /\ boot' = 1
  /\ UNCHANGED <<saved, calls>>

Orphan_File(i) == dinode[i].type = "file" /\ dinode[i].nlink = 0
Orphan(i) == dinode[i].type # "free" /\ dinode[i].nlink = 0

\* An orphan is freed in a transaction of its own, with nobody else there.
ireclaim ==
  /\ boot # 0
  /\ dinode' = IF Orphan(boot) THEN [dinode EXCEPT ![boot] = FreeInode] ELSE dinode
  /\ saved' = dinode'
  /\ boot' = IF boot = Cardinality(Inum) THEN 0 ELSE boot + 1
  /\ UNCHANGED <<inode, ref, lock, th, file, cwd, calls, crashes>>

namex(t) == \/ \E d \in Inum, n \in Name \cup {".."} :
                 walk_down(t, d, n) \/ walk_parent(t, d, n) \/ walk_nowhere(t, d, n)
            \/ walk_end(t)
create(t) == \/ create_found(t) \/ create_existing(t) \/ create_ialloc(t)
             \/ create_iget(t) \/ create_link(t) \/ create_fails(t) \/ opening(t)
sys_link(t) == \/ link(t) \/ link_walk(t) \/ link_entry(t) \/ link_exists(t)
               \/ link_unlock(t) \/ link_done(t) \/ link_bad(t)
sys_unlink(t) == \/ unlink_bad(t) \/ unlink(t) \/ unlink_nonempty(t)
                 \/ unlink_ip(t) \/ unlink_count(t)

\* What a thread inside a call does next.
Step(t) == \/ iput(t) \/ iput_free(t) \/ iput_drop(t) \/ end_op(t) \/ unlock_dp(t)
           \/ namex(t) \/ create(t) \/ open(t) \/ chdir(t)
           \/ sys_link(t) \/ sys_unlink(t)

Next == \/ \E t \in Thread : begin_op(t) \/ fileclose(t) \/ Step(t)
        \/ Crash \/ ireclaim

Spec == Init /\ [][Next]_vars

(***************************************************************************)
(* Properties.                                                              *)
(***************************************************************************)

Naming(i) == {e \in Inum \X Name : dinode[e[1]].ents[e[2]] = i}
Subdirs(i) == {j \in Inum \ {ROOTINO} : dinode[j].type = "dir" /\ dinode[j].up = i
                                        /\ Naming(j) # {}}

\* A link count is never too small: at every moment, in the middle of calls
\* and after a crash, an inode that a directory entry names is allocated and
\* its count covers the entries (and, for a directory, the ".." of its
\* subdirectories).  link() raises the count before it makes the entry and
\* unlink() lowers it after.
LinksCovered ==
  \A i \in Inum :
    /\ Naming(i) # {} => dinode[i].type # "free"
    /\ dinode[i].nlink >= Cardinality(Naming(i)) + Cardinality(Subdirs(i))

\* The inode t is about to ilock().
Locking(t) ==
  LET c == th[t] IN
  CASE c.pc = "walk" /\ c.path # <<>> -> c.cur
    [] c.pc \in {"create_existing", "create_link", "open", "chdir", "link_bad",
                 "unlink_ip"} -> c.ip
    [] c.pc = "link" -> IF c.parent THEN c.dp ELSE c.ip
    [] c.pc \in {"create", "mkdir", "mknod", "unlink"} -> c.dp
    [] OTHER -> 0

\* The panics of fs.c and sysfile.c: no ilock() of an inode without a
\* reference, or of one that is free on the disk; the directories looked into
\* are directories; no unlink() of an inode with a count below 1.
NoPanic ==
  \A t \in Thread :
    LET i == Locking(t) IN
    i # 0 => /\ ref[i] >= 1
             /\ Entry(i).type # "free"
             /\ th[t].dp # 0 => dinode[th[t].dp].type = "dir"
             /\ th[t].pc = "unlink_ip" => Entry(i).nlink >= 1

\* ip->ref counts the pointers to the table entry exactly, and iput() never
\* sleeps with itable.lock held: "ip->ref == 1 means no other process can
\* have ip locked, so this acquiresleep() won't block (or deadlock)".
Pointers(i) ==
  LET From(f) == Cardinality({t \in Thread : th[t][f] = i}) IN
  From("cur") + From("dp") + From("put")
  + Cardinality({t \in Thread : th[t].ip = i /\ th[t].pc # "create_iget"})
  + Cardinality({t \in Thread : file[t] = i}) + Cardinality({t \in Thread : cwd[t] = i})
ReferencesExact ==
  /\ \A i \in Inum : ref[i] = Pointers(i)
  /\ \A t \in Thread : th[t].pc = "put" /\ Last(th[t].put) => lock[th[t].put] = None

\* "ialloc() allocates, and iput() frees if the reference and link counts have
\* fallen to zero": an inode that is allocated with no link is in use, by an
\* open file, a working directory or a call, or waits for ireclaim().
OrphansFreed ==
  \A i \in Inum :
    Orphan(i) => \/ boot # 0 /\ i >= boot
                 \/ ref[i] > 0
                 \/ \E t \in Thread : th[t].pc = "create_iget" /\ th[t].ip = i

\* The sleep locks leave nobody waiting for ever: no set of threads wait only
\* for locks that they hold themselves (a call locks a directory before what
\* it names), and a thread outside of any call holds none.
NoLockCycle ==
  /\ \A S \in SUBSET Thread \ {{}} :
       \E t \in S : Locking(t) = 0 \/ lock[Locking(t)] \notin S
  /\ \A i \in Inum : lock[i] # None => th[lock[i]].pc # "idle"

\* ireclaim() is done when every inode with no link has been freed: files and
\* directories that were in use when the system crashed are not lost.
BootLeavesNoOrphan ==
  [][boot # 0 /\ boot' = 0 =>
       \A i \in Inum : dinode'[i].type # "free" => dinode'[i].nlink > 0]_vars
=============================================================================
