----------------------------- MODULE HugePages -----------------------------
(***************************************************************************)
(* The kernel thread khugepaged (kernel/khugepaged.c) beside the processes  *)
(* of AddressSpaces.  It scans the process table and collapses the regions  *)
(* of a process with p->lock held; the process, on another hart or          *)
(* preempted inside the kernel, changes its page table without that lock.   *)
(* So the work of vm_try_collapse() is cut where another thread can come in *)
(* between: after the check, after the copy, after the pages are freed.     *)
(***************************************************************************)
EXTENDS AddressSpaces

VARIABLES
  kh,       \* where khugepaged is
  whose,    \* the process it works on
  region,   \* the region of that process
  new       \* the huge page it fills

khVars == <<kh, whose, region, new>>

\* The check of vm_try_collapse(), for a process that scan_all_procs_for_collapse()
\* has come to, and kalloc_huge().
collapse_check(p, r) ==
  /\ kh = "idle" /\ sz[p] > 0
  /\ H * r + H <= sz[p] /\ tbl[p].l1[r] \in Small
  /\ Uniform(p, r)
  /\ hfree # {}
  /\ kh' = "copy" /\ whose' = p /\ region' = r /\ new' = Min(hfree)
  /\ hfree' = hfree \ {new'}
  /\ UNCHANGED <<free, mem, hmem, tbl, sz, panic, held, wrote>>

\* memmove() of every page of the region, read through the table.
collapse_copy ==
  /\ kh = "copy"
  /\ hmem' = [hmem EXCEPT ![new] = [i \in 0..H - 1 |-> mem[tbl[whose].pte[H * region + i]]]]
  /\ kh' = "free"
  /\ UNCHANGED <<free, hfree, mem, tbl, sz, panic, held, wrote, whose, region, new>>

\* kfree() of the old pages and of their table, which is still in place.
collapse_free ==
  /\ kh = "free"
  /\ Update(kfree(Now, Leaves(Now, whose, PagesOf(region)) \cup {tbl[whose].l1[region]}))
  /\ kh' = "install"
  /\ UNCHANGED <<sz, held, wrote, whose, region, new>>

\* *l1 = the huge page, with the permissions found in its pages.
collapse_install ==
  /\ kh = "install"
  /\ tbl' = [tbl EXCEPT
       ![whose].l1[region] = new,
       ![whose].pte = [n \in Page |-> IF n \in PagesOf(region) THEN 0 ELSE @[n]]]
  /\ kh' = "idle" /\ whose' = First /\ region' = 0 /\ new' = 0
  /\ UNCHANGED <<free, hfree, mem, hmem, sz, panic, held, wrote>>

KhInit == Init /\ kh = "idle" /\ whose = First /\ region = 0 /\ new = 0

KhNext ==
  \/ ProcStep /\ UNCHANGED khVars
  \/ \E p \in Proc : panic = "" /\ (kh = "idle" \/ whose # p) /\ freeproc(p) /\ UNCHANGED khVars
  \/ \E p \in Proc, r \in Region : collapse_check(p, r)
  \/ collapse_copy \/ collapse_free \/ collapse_install

KhSpec == KhInit /\ [][KhNext]_<<vars, khVars>>

\* While khugepaged works on a region under p->lock, the process changes
\* nothing in its page table ("p->lock is enough to prevent page table
\* changes", Lab 3, step 4).
TableStable ==
  kh # "idle" => /\ tbl[whose].l1[region] \in Small
                 /\ \A n \in PagesOf(region) : tbl[whose].pte[n] # 0
=============================================================================
