-------------------------------- MODULE Buddy --------------------------------
(***************************************************************************)
(* The buddy page allocator of kernel/kalloc.c.  Pages are numbered from    *)
(* KERNBASE, which is aligned to the largest block, so that alignment and   *)
(* buddies can be computed on page numbers.  buddy.lock is held through     *)
(* every operation: each is one step.                                       *)
(***************************************************************************)
EXTENDS Integers, Sequences, FiniteSets

CONSTANTS NPAGES,      \* pages between KERNBASE and PHYSTOP
          First,       \* the first page after the kernel image
          MAX_ORDER,   \* the largest block has 2^MAX_ORDER pages
          HUGE_ORDER   \* a huge page has 2^HUGE_ORDER pages

ASSUME BuddyConstants ==
  /\ NPAGES \in Nat
  /\ First \in 0..NPAGES - 1
  /\ MAX_ORDER \in Nat
  /\ HUGE_ORDER \in 1..MAX_ORDER

ALLOC == -1   \* PAGE_STATE_ALLOC
Order == 0..MAX_ORDER
PageNo == 0..NPAGES - 1

VARIABLES
  freelist,    \* freelist[order], as a sequence from its head
  page_state,  \* ALLOC, or at the head of a free block its order
  start,       \* how far buddy_add_range() has come
  held         \* the blocks callers hold, as <<first page, order>>

buddyVars == <<freelist, page_state, start, held>>

Least(S) == CHOOSE x \in S : \A y \in S : x <= y
Greatest(S) == CHOOSE x \in S : \A y \in S : y <= x

size(o) == 2^o
Align(p, o) == p - (p % size(o))
Pages(b) == b[1]..b[1] + size(b[2]) - 1

\* offset ^ order_size(order).
BuddyOf(p, o) == IF (p \div size(o)) % 2 = 0 THEN p + size(o) ELSE p - size(o)

(***************************************************************************)
(* buddy_free_locked(): merge with the buddy while it is free and of the    *)
(* same order.  At order o the block grown from page p starts at            *)
(* Align(p, o); the loop stops at the first order at which it cannot merge. *)
(***************************************************************************)

CanMerge_Never(p, o) == FALSE
CanMerge(p, o) ==
  /\ BuddyOf(p, o) + size(o) <= NPAGES
  /\ page_state[BuddyOf(p, o)] = o

FinalOrder(p, o) ==
  Least({k \in o..MAX_ORDER : k = MAX_ORDER \/ ~CanMerge(Align(p, k), k)})

buddy_free_locked(p, o) ==
  LET k == FinalOrder(p, o)
      merged == {BuddyOf(Align(p, j), j) : j \in o..k - 1}
      rest(j) == SelectSeq(freelist[j], LAMBDA q : q \notin merged)
  IN /\ freelist' = [j \in Order |-> IF j = k THEN <<Align(p, k)>> \o rest(j) ELSE rest(j)]
     /\ page_state' = [q \in PageNo |-> IF q = Align(p, k) THEN k
                                        ELSE IF q \in merged THEN ALLOC
                                        ELSE page_state[q]]

\* panic("buddy_free_locked align") or panic("buddy double free").
FreePanics(p, o) == p % size(o) # 0 \/ page_state[p] # ALLOC

(***************************************************************************)
(* buddy_alloc_locked(): take the first block of the smallest order that    *)
(* has one and give its upper halves back, down to the order asked for.     *)
(***************************************************************************)

Enough(o) == {k \in o..MAX_ORDER : freelist[k] # <<>>}

UpperHalves(r, o, k) == {<<r + size(j), j>> : j \in o..k - 1}

\* The block of order o that is next to go.
NextBlock(o) == Head(freelist[Least(Enough(o))])

buddy_alloc_locked(o) ==
  LET k == Least(Enough(o))
      r == NextBlock(o)
      halves == UpperHalves(r, o, k)
  IN /\ Enough(o) # {}
     /\ freelist' = [j \in Order |->
                       IF j = k THEN Tail(freelist[k])
                       ELSE IF <<r + size(j), j>> \in halves
                       THEN <<r + size(j)>> \o freelist[j]
                       ELSE freelist[j]]
     /\ page_state' = [q \in PageNo |->
                         IF q = r THEN ALLOC
                         ELSE IF \E j \in Order : <<q, j>> \in halves
                         THEN CHOOSE j \in Order : <<q, j>> \in halves
                         ELSE page_state[q]]
     /\ held' = held \cup {<<r, o>>}

(***************************************************************************)
(* The operations.                                                          *)
(***************************************************************************)

Ready == start = NPAGES

\* A block of order k starts at start and fits.
Fits(k) == start % size(k) = 0 /\ start + size(k) <= NPAGES

\* One turn of the loop of buddy_add_range(), called by kinit(): the largest
\* aligned block that starts here and fits.
buddy_add_range ==
  LET o == Greatest({k \in Order : Fits(k)})
  IN /\ start < NPAGES
     /\ buddy_free_locked(start, o)
     /\ start' = start + size(o)
     /\ UNCHANGED held

\* kalloc() and kalloc_huge(); when they fail nothing changes.
Alloc(o) == Ready /\ buddy_alloc_locked(o) /\ UNCHANGED start

\* kfree() and kfree_huge().
Free(b) ==
  /\ Ready
  /\ ~FreePanics(b[1], b[2])
  /\ buddy_free_locked(b[1], b[2])
  /\ held' = held \ {b}
  /\ UNCHANGED start

BuddyInit ==
  /\ freelist = [o \in Order |-> <<>>]
  /\ page_state = [p \in PageNo |-> ALLOC]
  /\ start = First
  /\ held = {}

(***************************************************************************)
(* Properties.                                                              *)
(***************************************************************************)

\* The buddy system does what the abstract page allocator allows: the blocks
\* callers hold are aligned and share no page, and kalloc() and kalloc_huge()
\* fail only when memory holds no free page, or no free huge page, since free
\* buddies never stay apart.
Abstract == INSTANCE PageAlloc WITH
  Orders <- {0, HUGE_ORDER},
  ready <- Ready,
  serves <- {o \in {0, HUGE_ORDER} : Enough(o) # {}}
RefinesPageAlloc == Abstract!Spec
=============================================================================
