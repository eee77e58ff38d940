--------------------------- MODULE AddressSpaces ---------------------------
(***************************************************************************)
(* The user memory of processes through fork(), exec(), sbrk(), page faults *)
(* and exit(): kernel/vm.c and kernel/exec.c over one page allocator that   *)
(* runs out.  A process works alone on its page table, so a call is one     *)
(* step; the module HugePages has its interleaving with khugepaged.         *)
(*                                                                         *)
(* The operators are the bodies of the functions: they map a record of all  *)
(* page tables and of physical memory to the record they leave behind, with *)
(* ok false when the function fails and the page kalloc() returned in addr. *)
(* A page table is its root, the level-1 table of user memory, and for each *)
(* region a level-1 entry: a level-0 table or a huge page.                  *)
(***************************************************************************)
EXTENDS Integers, FiniteSets, FiniteSetsExt

CONSTANTS Proc,
          H,           \* small pages in a region: 512
          NRegions,
          Small, Huge, \* physical pages and huge pages, numbered from 1 on
          Held,        \* the sets of pages the rest of the kernel may hold
          Text,        \* sizes of programs, in pages
          Argc,        \* arguments of exec()
          Val          \* what a program stores in a page

ASSUME AddressSpacesConstants ==
  /\ H \in Nat \ {0} /\ NRegions \in Nat \ {0}
  /\ Small \subseteq Nat \ {0} /\ Huge \subseteq Nat \ {0} /\ Small \cap Huge = {}
  /\ \A k \in Held : k \subseteq Small \cup Huge
  /\ \A t \in Text : t >= 1 /\ t + 2 <= H * NRegions
  /\ Val \subseteq Nat /\ Argc \in Nat

Spare == 0             \* the table exec() builds
Table == Proc \cup {Spare}
Region == 0..NRegions - 1
MaxSz == H * NRegions
Page == 0..MaxSz - 1
RegionOf(p) == p \div H
PagesOf(r) == H * r..H * r + H - 1
Junk == -1             \* kfree() overwrites the page
Program == -2          \* contents of program text

NoTable == [root |-> 0, dir |-> 0, l1 |-> [r \in Region |-> 0],
            pte |-> [p \in Page |-> 0], perm |-> [p \in Page |-> "none"]]

VARIABLES
  free, hfree,  \* free pages
  mem, hmem,    \* contents
  tbl,          \* the page tables
  sz,           \* p->sz in pages; 0: no process
  panic,
  held,         \* pages of the rest of the kernel, throughout
  wrote         \* history: what each program finds in its pages

vars == <<free, hfree, mem, hmem, tbl, sz, panic, held, wrote>>

Now == [free |-> free, hfree |-> hfree, mem |-> mem, hmem |-> hmem, tbl |-> tbl,
        ok |-> TRUE, addr |-> 0, panic |-> panic]

Update(s) ==
  /\ free' = s.free /\ hfree' = s.hfree /\ mem' = s.mem /\ hmem' = s.hmem
  /\ tbl' = s.tbl /\ panic' = s.panic

Fails(s) == [s EXCEPT !.ok = FALSE]

\* Op(s): what follows, once s has been done.
Then(s, Op(_)) == CHOOSE t \in {Op(x) : x \in {s}} : TRUE

(***************************************************************************)
(* Physical pages.                                                          *)
(***************************************************************************)

kalloc(s) ==
  IF s.free = {} THEN [s EXCEPT !.addr = 0]
  ELSE [s EXCEPT !.addr = Min(s.free), !.free = @ \ {Min(s.free)}]

kfree(s, F) ==
  [s EXCEPT !.free = @ \cup F,
            !.mem = [f \in Small |-> IF f \in F THEN Junk ELSE @[f]]]

kfree_huge(s, G) ==
  [s EXCEPT !.hfree = @ \cup G,
            !.hmem = [g \in Huge |-> IF g \in G THEN [i \in 0..H - 1 |-> Junk] ELSE @[g]]]

(***************************************************************************)
(* Mapping and unmapping.                                                   *)
(***************************************************************************)

\* walk() with alloc: the tables on the way to page p; a table made before the
\* next one fails stays.
WalkDir(s, q) ==
  LET a == kalloc(s)
  IN IF s.tbl[q].dir # 0 THEN s
     ELSE IF a.addr = 0 THEN Fails(s) ELSE [a EXCEPT !.tbl[q].dir = a.addr]
Walk(s, q, r) ==
  Then(WalkDir(s, q), LAMBDA d :
    IF ~d.ok \/ d.tbl[q].l1[r] # 0 THEN d
    ELSE Then(kalloc(d), LAMBDA a :
      IF a.addr = 0 THEN Fails(d) ELSE [a EXCEPT !.tbl[q].l1[r] = a.addr]))

\* A page with contents v mapped at p: a round of uvmalloc(), uvmcopy() and
\* the work of vmfault().  When the tables fail the page is given back.
mappages_Lost(s, q, p, v, perm) ==
  Then(kalloc(s), LAMBDA a :
    IF a.addr = 0 THEN Fails(s)
    ELSE Then(Walk(a, q, RegionOf(p)), LAMBDA t :
      IF ~t.ok THEN t
      ELSE [t EXCEPT !.tbl[q].pte[p] = a.addr, !.tbl[q].perm[p] = perm, !.mem[a.addr] = v]))
mappages(s, q, p, v, perm) ==
  Then(kalloc(s), LAMBDA a :
    IF a.addr = 0 THEN Fails(s)
    ELSE Then(Walk(a, q, RegionOf(p)), LAMBDA t :
      IF ~t.ok THEN kfree(t, {a.addr})
      ELSE [t EXCEPT !.tbl[q].pte[p] = a.addr, !.tbl[q].perm[p] = perm, !.mem[a.addr] = v]))

IsHuge(s, q, r) == s.tbl[q].l1[r] \in Huge
Leaves(s, q, P) == {s.tbl[q].pte[p] : p \in P} \ {0}
HugeIn(s, q, P) == {r \in Region : IsHuge(s, q, r) /\ PagesOf(r) \subseteq P}

\* uvmunmap() of the pages P, huge pages whole.
uvmunmap(s, q, P) ==
  LET G == HugeIn(s, q, P)
      t == kfree_huge(kfree(s, Leaves(s, q, P)), {s.tbl[q].l1[r] : r \in G})
  IN [t EXCEPT !.tbl[q].pte = [p \in Page |-> IF p \in P THEN 0 ELSE @[p]],
               !.tbl[q].perm = [p \in Page |-> IF p \in P THEN "none" ELSE @[p]],
               !.tbl[q].l1 = [r \in Region |-> IF r \in G THEN 0 ELSE @[r]]]

\* uvmalloc(): page after page; what was mapped is unmapped on failure.
uvmalloc(s, q, from, to, v, perm) ==
  LET round[n \in from..to] ==
        IF n = from THEN s
        ELSE Then(round[n - 1], LAMBDA t : IF t.ok THEN mappages(t, q, n - 1, v, perm) ELSE t)
  IN Then(round[to], LAMBDA t : IF t.ok THEN t ELSE uvmunmap(t, q, from..to - 1))

\* freewalk(): "All leaf mappings must already have been removed."
freewalk(s, q) ==
  LET t == s.tbl[q]
      tables == ({t.root, t.dir} \cup {t.l1[r] : r \in Region}) \cap Small
  IN IF Leaves(s, q, Page) # {} \/ HugeIn(s, q, Page) # {}
     THEN [s EXCEPT !.panic = "freewalk: leaf"]
     ELSE [kfree(s, tables) EXCEPT !.tbl[q] = NoTable]

\* proc_freepagetable() and uvmfree().
uvmfree(s, q, n) == Then(uvmunmap(s, q, 0..n - 1), LAMBDA t : freewalk(t, q))

\* proc_pagetable(): the root, with the trampoline and the trapframe.
proc_pagetable(s, q) ==
  LET a == kalloc(s)
  IN IF a.addr = 0 THEN Fails(s) ELSE [a EXCEPT !.tbl[q] = [NoTable EXCEPT !.root = a.addr]]

(***************************************************************************)
(* fork().                                                                  *)
(***************************************************************************)

\* A huge page of the parent p, copied to the child q as a huge page.
CopyHuge(s, p, q, r) ==
  LET g == Min(s.hfree)
      t == WalkDir([s EXCEPT !.hfree = @ \ {g}], q)
  IN IF s.hfree = {} THEN Fails(s)
     ELSE IF ~t.ok THEN kfree_huge(t, {g})
     ELSE [t EXCEPT !.tbl[q].l1[r] = g, !.hmem[g] = s.hmem[s.tbl[p].l1[r]],
                    !.tbl[q].perm = [n \in Page |->
                                       IF n \in PagesOf(r) THEN s.tbl[p].perm[n] ELSE @[n]]]

CopyPage(s, p, q, n) ==
  CASE ~s.ok -> s
    [] s.ok /\ IsHuge(s, p, RegionOf(n)) ->
         IF n % H = 0 THEN CopyHuge(s, p, q, RegionOf(n)) ELSE s
    [] s.ok /\ ~IsHuge(s, p, RegionOf(n)) /\ s.tbl[p].pte[n] # 0 ->
         mappages(s, q, n, s.mem[s.tbl[p].pte[n]], s.tbl[p].perm[n])
    [] OTHER -> s

\* On failure, what has been copied so far is unmapped.
uvmcopy(s, p, q, size) ==
  LET round[n \in 0..MaxSz] ==
        IF n = 0 THEN s ELSE Then(round[n - 1], LAMBDA t : CopyPage(t, p, q, n - 1))
  IN Then(round[size], LAMBDA t : IF t.ok THEN t ELSE uvmunmap(t, q, Page))

\* np->sz is set after the copy: freeproc() finds 0 when it has failed.
Forked(p, q) ==
  Then(proc_pagetable(Now, q), LAMBDA t :
    IF ~t.ok THEN t
    ELSE Then(uvmcopy(t, p, q, sz[p]), LAMBDA s : IF s.ok THEN s ELSE uvmfree(s, q, 0)))
kfork(p, q) ==
  /\ sz[p] > 0 /\ sz[q] = 0 /\ p # q
  /\ \E s \in {Forked(p, q)} :
       /\ Update(s)
       /\ sz' = IF s.ok THEN [sz EXCEPT ![q] = sz[p]] ELSE sz
       /\ wrote' = IF s.ok THEN [wrote EXCEPT ![q] = wrote[p]] ELSE wrote
  /\ UNCHANGED held

(***************************************************************************)
(* exec().                                                                  *)
(***************************************************************************)

\* The new image: t pages of program, the stack guard and the stack.  fault
\* says where the program cannot be read or its arguments do not fit.
Guarded(s, n) == [s EXCEPT !.tbl[Spare].perm[n] = "guard"]
Stacked(s, t, fault) ==
  Then(uvmalloc(s, Spare, t, t + 2, 0, "rw"), LAMBDA stack :
    CASE ~stack.ok -> uvmfree(stack, Spare, t)
      [] stack.ok /\ fault = "args" -> Fails(uvmfree(stack, Spare, t + 2))
      [] OTHER -> Guarded(stack, t))
Loaded(s, t, fault) ==
  Then(uvmalloc(s, Spare, 0, t, Program, "rx"), LAMBDA text :
    CASE ~text.ok -> uvmfree(text, Spare, 0)
      [] text.ok /\ fault = "load" -> Fails(uvmfree(text, Spare, t))
      [] OTHER -> Stacked(text, t, fault))
Image(s, t, fault) ==
  Then(proc_pagetable(s, Spare), LAMBDA new : IF new.ok THEN Loaded(new, t, fault) ELSE new)

Contained(t) == [n \in Page |-> IF n < t THEN Program ELSE 0]

\* Commit: the old table is freed with the old size.
OldSize_New(p, t) == t + 2
OldSize(p, t) == sz[p]
Commit(s, p, t) ==
  Then([s EXCEPT !.tbl[p] = s.tbl[Spare], !.tbl[Spare] = s.tbl[p]],
       LAMBDA swapped : uvmfree(swapped, Spare, OldSize(p, t)))

kexec(s, p, t, fault) ==
  Then(Image(s, t, fault), LAMBDA new : IF new.ok THEN Commit(new, p, t) ELSE new)

\* sys_exec(): a page for each argument, taken before and given back after.
Args(s) == {f \in s.free : Cardinality({g \in s.free : g < f}) < Argc}
sys_exec(p, t, fault) ==
  /\ sz[p] > 0
  /\ Cardinality(free) >= Argc
  /\ \E called \in {[Now EXCEPT !.free = @ \ Args(Now)]} :
     \E s \in {kfree(kexec(called, p, t, fault), Args(Now))} :
       /\ Update(s)
       /\ sz' = IF s.ok THEN [sz EXCEPT ![p] = t + 2] ELSE sz
       /\ wrote' = IF s.ok THEN [wrote EXCEPT ![p] = Contained(t)] ELSE wrote
  /\ UNCHANGED held

\* exit() and wait(): freeproc(), called with p->lock held.
freeproc(p) ==
  /\ sz[p] > 0
  /\ \E s \in {uvmfree(Now, p, sz[p])} : Update(s)
  /\ sz' = [sz EXCEPT ![p] = 0]
  /\ wrote' = [wrote EXCEPT ![p] = [n \in Page |-> 0]]
  /\ UNCHANGED held

(***************************************************************************)
(* sbrk(), page faults, stores, and the collapse of a region.               *)
(***************************************************************************)

growproc(p, n) ==
  /\ sz[p] > 0 /\ n > sz[p]
  /\ \E s \in {uvmalloc(Now, p, sz[p], n, 0, "rw")} :
       Update(s) /\ sz' = IF s.ok THEN [sz EXCEPT ![p] = n] ELSE sz
  /\ UNCHANGED <<held, wrote>>

sbrk_lazy(p, n) ==
  /\ sz[p] > 0 /\ n > sz[p]
  /\ sz' = [sz EXCEPT ![p] = n]
  /\ UNCHANGED <<free, hfree, mem, hmem, tbl, panic, held, wrote>>

\* split_huge_page(): a table, a scratch page that is given back, and H pages.
Nth(s, i) == CHOOSE f \in s.free : Cardinality({g \in s.free : g < f}) = i
split_huge_page(s, q, r) ==
  LET g == s.tbl[q].l1[r]
      piece(n) == Nth(s, (n % H) + 2)
      new == {piece(n) : n \in PagesOf(r)}
      t == [s EXCEPT !.free = @ \ (new \cup {Nth(s, 0)}),
                     !.mem = [f \in Small |->
                                IF f \in new THEN s.hmem[g][CHOOSE i \in 0..H - 1 : piece(i) = f]
                                ELSE @[f]],
                     !.tbl[q].l1[r] = Nth(s, 0),
                     !.tbl[q].pte = [n \in Page |-> IF n \in PagesOf(r) THEN piece(n) ELSE @[n]]]
  IN IF Cardinality(s.free) < H + 2 THEN [s EXCEPT !.panic = "uvmunmap split"]
     ELSE kfree_huge(t, {g})

Cut(p, n) == {r \in Region : IsHuge(Now, p, r) /\ n \in H * r + 1..H * r + H - 1}
shrink(p, n) ==
  /\ sz[p] > 0 /\ n \in 1..sz[p] - 1
  /\ \E s \in {IF Cut(p, n) = {} THEN Now
                ELSE split_huge_page(Now, p, CHOOSE r \in Cut(p, n) : TRUE)} :
       IF s.panic # "" THEN Update(s) /\ UNCHANGED <<sz, wrote>>
       ELSE /\ \E t \in {uvmunmap(s, p, n..sz[p] - 1)} : Update(t)
            /\ sz' = [sz EXCEPT ![p] = n]
            /\ wrote' = [wrote EXCEPT ![p] = [k \in Page |-> IF k >= n THEN 0 ELSE @[k]]]
  /\ UNCHANGED held

Mapped(p, n) == IsHuge(Now, p, RegionOf(n)) \/ tbl[p].pte[n] # 0
Contents(p, n) ==
  IF IsHuge(Now, p, RegionOf(n)) THEN hmem[tbl[p].l1[RegionOf(n)]][n % H] ELSE mem[tbl[p].pte[n]]

vmfault(p, n) ==
  /\ n < sz[p] /\ ~Mapped(p, n)
  /\ \E s \in {mappages(Now, p, n, 0, "rw")} : Update(s)
  /\ UNCHANGED <<sz, held, wrote>>

Store(p, n, v) ==
  /\ n < sz[p] /\ Mapped(p, n) /\ tbl[p].perm[n] = "rw"
  /\ IF IsHuge(Now, p, RegionOf(n))
     THEN hmem' = [hmem EXCEPT ![tbl[p].l1[RegionOf(n)]][n % H] = v] /\ UNCHANGED mem
     ELSE mem' = [mem EXCEPT ![tbl[p].pte[n]] = v] /\ UNCHANGED hmem
  /\ wrote' = [wrote EXCEPT ![p][n] = v]
  /\ UNCHANGED <<free, hfree, tbl, sz, panic, held>>

\* copyout(): a page that is not there yet is brought by vmfault(); one that is
\* there is written like a program would, and the copy stops where it may not.
copyout(p, n, v) ==
  /\ n < sz[p] /\ ~Mapped(p, n)
  /\ \E s \in {mappages(Now, p, n, v, "rw")} :
       Update(s) /\ wrote' = IF s.ok THEN [wrote EXCEPT ![p][n] = v] ELSE wrote
  /\ UNCHANGED <<sz, held>>

\* copyin(): it only reads, but brings the pages that are not there yet.
copyin(p, n) == vmfault(p, n)

\* vm_try_collapse(), undisturbed: pages with PTE_U and the same permissions.
Uniform_Guard(p, r) == \A n \in PagesOf(r) : tbl[p].pte[n] # 0
Uniform(p, r) ==
  \A n \in PagesOf(r) : /\ tbl[p].pte[n] # 0 /\ tbl[p].perm[n] # "guard"
                        /\ tbl[p].perm[n] = tbl[p].perm[H * r]
vm_try_collapse(p, r) ==
  /\ H * r + H <= sz[p] /\ tbl[p].l1[r] \in Small
  /\ Uniform(p, r)
  /\ hfree # {}
  /\ LET g == Min(hfree)
         filled == [Now EXCEPT !.hfree = @ \ {g},
                               !.hmem[g] = [i \in 0..H - 1 |-> mem[tbl[p].pte[H * r + i]]]]
         freed == kfree(filled, Leaves(Now, p, PagesOf(r)) \cup {tbl[p].l1[r]})
     IN Update([freed EXCEPT
          !.tbl[p].l1[r] = g,
          !.tbl[p].pte = [n \in Page |-> IF n \in PagesOf(r) THEN 0 ELSE @[n]],
          !.tbl[p].perm = [n \in Page |-> IF n \in PagesOf(r) THEN tbl[p].perm[H * r] ELSE @[n]]])
  /\ UNCHANGED <<sz, held, wrote>>

(***************************************************************************)
(* The specification.  The first process has called exec().                 *)
(***************************************************************************)

First == CHOOSE p \in Proc : \A q \in Proc : p <= q
Blank(k) ==
         [free |-> Small \ k, hfree |-> Huge \ k, mem |-> [f \in Small |-> Junk],
          hmem |-> [g \in Huge |-> [i \in 0..H - 1 |-> Junk]],
          tbl |-> [q \in Table |-> NoTable], ok |-> TRUE, addr |-> 0, panic |-> ""]

Init ==
  \E t \in Text, k \in Held :
    \E s \in {Image(Blank(k), t, "none")} :
       /\ held = k
       /\ free = s.free /\ hfree = s.hfree /\ mem = s.mem /\ hmem = s.hmem
       /\ tbl = [s.tbl EXCEPT ![First] = s.tbl[Spare], ![Spare] = NoTable]
       /\ sz = [p \in Proc |-> IF p = First THEN t + 2 ELSE 0]
       /\ panic = ""
       /\ wrote = [p \in Proc |-> IF p = First THEN Contained(t) ELSE [n \in Page |-> 0]]

\* What a process does by itself, without p->lock.
ProcStep ==
  /\ panic = ""
  /\ \E p \in Proc :
       \/ \E q \in Proc : kfork(p, q)
       \/ \E t \in Text, fault \in {"none", "load", "args"} : sys_exec(p, t, fault)
       \/ \E n \in 1..MaxSz : growproc(p, n) \/ sbrk_lazy(p, n) \/ shrink(p, n)
       \/ \E n \in Page : vmfault(p, n) \/ copyin(p, n)
       \/ \E n \in Page, v \in Val : Store(p, n, v) \/ copyout(p, n, v)

Next ==
  \/ ProcStep
  \/ /\ panic = ""
     /\ \E p \in Proc : freeproc(p) \/ \E r \in Region : vm_try_collapse(p, r)

Spec == Init /\ [][Next]_vars

(***************************************************************************)
(* Properties.                                                              *)
(***************************************************************************)

PageContents == Val \cup {0, Junk, Program}
PageTable ==
  [root : Small \cup {0}, dir : Small \cup {0}, l1 : [Region -> Small \cup Huge \cup {0}],
   pte : [Page -> Small \cup {0}], perm : [Page -> {"none", "rx", "rw", "guard"}]]

\* Every variable has its type: a level-0 entry is a small page, a level-1
\* entry a table or a huge page.
TypeOK ==
  /\ free \subseteq Small /\ hfree \subseteq Huge /\ held \in Held
  /\ mem \in [Small -> PageContents] /\ hmem \in [Huge -> [0..H - 1 -> PageContents]]
  /\ tbl \in [Table -> PageTable]
  /\ sz \in [Proc -> 0..MaxSz] /\ wrote \in [Proc -> [Page -> PageContents]]
  /\ panic \in {"", "freewalk: leaf", "uvmunmap split"}

Running == {p \in Proc : sz[p] > 0}


Used(q) == ({tbl[q].root, tbl[q].dir} \cup {tbl[q].l1[r] : r \in Region}
            \cup {tbl[q].pte[n] : n \in Page}) \ {0}
Uses(q) ==
  Cardinality({k \in {"root"} : tbl[q].root # 0}) + Cardinality({k \in {"dir"} : tbl[q].dir # 0})
  + Cardinality({r \in Region : tbl[q].l1[r] # 0}) + Cardinality({n \in Page : tbl[q].pte[n] # 0})

\* Every physical page is free or used once, by one page table: nothing is lost
\* and nothing freed twice when memory runs out at any point of fork(), exec()
\* or sbrk(), or when exec() fails for another reason.
PagesExact ==
  panic = "" =>
    /\ free \cup hfree = (Small \cup Huge) \ (held \cup UNION {Used(q) : q \in Table})
    /\ Cardinality(UNION {Used(q) : q \in Table}) = MapThenSumSet(Uses, Table)

\* A page table is freed only when it has no leaf left: p->sz covers every page
\* that is mapped, and uvmcopy() and exec() have undone what they did, so that
\* freewalk() does not panic.
NoLeafLeft == panic # "freewalk: leaf"

\* Through fork(), collapse and split a page keeps the permissions exec() gave
\* it: exactly the pages of program text are read-only, and the stack guard is
\* never part of a huge page, which has one set of permissions.
PermsKept ==
  \A p \in Running : \A n \in Page :
    Mapped(p, n) => /\ tbl[p].perm[n] = "rx" <=> wrote[p][n] = Program
                    /\ tbl[p].perm[n] = "guard" => ~IsHuge(Now, p, RegionOf(n))
=============================================================================
