------------------------------ MODULE PageAlloc ------------------------------
(***************************************************************************)
(* What the page allocator promises its callers: an aligned block of pages  *)
(* that shares no page with anything another caller holds, and failure only *)
(* when memory holds no such block.                                         *)
(***************************************************************************)
EXTENDS Integers

CONSTANTS NPAGES,   \* pages of physical memory
          First,    \* the first page after the kernel
          Orders    \* a block of order o is 2^o pages

VARIABLES held,   \* the blocks callers hold, as <<first page, order>>
          ready,  \* the allocator has been given the memory
          serves  \* the orders of which a request would succeed

Pages(b) == b[1]..b[1] + 2^b[2] - 1
Held == UNION {Pages(b) : b \in held}

\* The blocks of order o that could be handed out.
Available(o) ==
  {b \in (First..NPAGES - 1) \X {o} :
     /\ b[1] % 2^o = 0
     /\ b[1] + 2^o <= NPAGES
     /\ Pages(b) \cap Held = {}}

Init == held = {} /\ ready = FALSE

Boot == ~ready /\ ready' \in BOOLEAN /\ UNCHANGED held

Alloc(o) ==
  /\ ready
  /\ \E b \in Available(o) : held' = held \cup {b}
  /\ UNCHANGED ready

Free(b) == ready /\ b \in held /\ held' = held \ {b} /\ UNCHANGED ready

Next ==
  \/ Boot
  \/ \E o \in Orders : Alloc(o)
  \/ \E b \in held : Free(b)

\* A request fails only when there is nothing to serve it with.
NoNeedlessFailure == ready => serves = {o \in Orders : Available(o) # {}}

Spec == Init /\ [][Next /\ NoNeedlessFailure']_<<held, ready, serves>>
=============================================================================
