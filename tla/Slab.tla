-------------------------------- MODULE Slab --------------------------------
(***************************************************************************)
(* The slab allocator of kernel/slab.c over the page allocator (Buddy): a   *)
(* cache for each object size, each with three lists of slabs.              *)
(*                                                                         *)
(* A slab takes two pages: one for its header, which is its identity here,  *)
(* and one for its objects.  An object is the triple of its page, its index *)
(* and the size of its cache; a request too large for every cache is served *)
(* by a whole page.  An operation holds c->lock to its end, but kalloc()    *)
(* and kfree() take buddy.lock each time, so other caches and the users of  *)
(* pages and huge pages come between any two of them.                       *)
(***************************************************************************)
EXTENDS Buddy

CONSTANTS ObjSizes,  \* the object sizes of kmem_caches[]
          PGSIZE,    \* size of a page, in the unit of ObjSizes
          MaxObjs,   \* bits in a freemap: 64
          Sizes      \* the sizes clients ask for

ASSUME SlabConstants ==
  /\ ObjSizes \subseteq Nat \ {0}
  /\ IsFiniteSet(ObjSizes)
  /\ PGSIZE \in Nat /\ MaxObjs \in Nat
  /\ \A c \in ObjSizes : 2 * c <= PGSIZE
  /\ MaxObjs >= 2
  /\ Sizes \subseteq Nat \ {0}

NoSlab == [mem |-> 0, freemap |-> {}, nr_free |-> -1]
Idle == <<"idle", 0>>

VARIABLES
  partial,    \* c->partial, as a sequence from its head
  full,       \* c->full
  empty,      \* c->empty
  slab,       \* the headers, by page: mem, freemap as a set of bits, nr_free
  at,         \* the operation that holds c->lock: <<where it is, header page>>
  out         \* what clients hold: objects, and whole pages

slabVars == <<partial, full, empty, slab, at, out>>
vars == <<buddyVars, slabVars>>

Elems(l) == {l[i] : i \in 1..Len(l)}

\* assist_size(): the smallest object size that fits, 0 when none does.
assist_size(s) ==
  IF \E c \in ObjSizes : s <= c THEN Least({c \in ObjSizes : s <= c}) ELSE 0

\* min(64, 4096 / obj_size).
Capacity(c) == Least({MaxObjs, PGSIZE \div c})
Indices(c) == 0..Capacity(c) - 1

\* A request no cache can serve holds a whole page.
Whole(p) == <<p, 0, 0>>

(***************************************************************************)
(* Allocation.                                                              *)
(***************************************************************************)

\* slab_init().
slab_init(m, c) == [mem |-> m, freemap |-> Indices(c), nr_free |-> Capacity(c)]

\* slab_alloc() on slab s with header h, and the move of s to the head of the
\* list it now belongs to; part is c->partial without s.  The lock is released.
slab_alloc(c, s, h, part) ==
  /\ slab' = [slab EXCEPT ![s] = [mem |-> h.mem,
                                  freemap |-> h.freemap \ {Least(h.freemap)},
                                  nr_free |-> h.nr_free - 1]]
  /\ out' = out \cup {<<h.mem, Least(h.freemap), c>>}
  /\ at' = [at EXCEPT ![c] = Idle]
  /\ \/ /\ h.nr_free = 1
        /\ full' = [full EXCEPT ![c] = <<s>> \o @]
        /\ partial' = [partial EXCEPT ![c] = part]
     \/ /\ h.nr_free # 1
        /\ partial' = [partial EXCEPT ![c] = <<s>> \o part]
        /\ UNCHANGED full

\* kmem_cache_alloc() with a partial slab at hand.
alloc_partial(c) ==
  /\ partial[c] # <<>>
  /\ LET s == Head(partial[c]) IN slab_alloc(c, s, slab[s], Tail(partial[c]))
  /\ UNCHANGED <<buddyVars, empty>>

\* kmem_cache_alloc() with only an empty slab at hand.
alloc_empty(c) ==
  /\ partial[c] = <<>> /\ empty[c] # <<>>
  /\ LET s == Head(empty[c]) IN slab_alloc(c, s, slab[s], <<>>)
  /\ empty' = [empty EXCEPT ![c] = Tail(@)]
  /\ UNCHANGED buddyVars

\* kmem_cache_alloc() making a new slab: its header, then its objects.  When the
\* first kalloc() fails nothing changes.
alloc_header(c) ==
  /\ partial[c] = <<>> /\ empty[c] = <<>>
  /\ Alloc(0)
  /\ at' = [at EXCEPT ![c] = <<"objects", NextBlock(0)>>]
  /\ UNCHANGED <<partial, full, empty, slab, out>>

alloc_objects(c) ==
  /\ at[c][1] = "objects"
  /\ Alloc(0)
  /\ slab_alloc(c, at[c][2], slab_init(NextBlock(0), c), <<>>)
  /\ UNCHANGED empty

\* The second kalloc() fails: the page of the header goes back.
alloc_undo_Lost(c) ==
  /\ at[c][1] = "objects" /\ Enough(0) = {}
  /\ at' = [at EXCEPT ![c] = Idle]
  /\ UNCHANGED <<buddyVars, partial, full, empty, slab, out>>
alloc_undo(c) ==
  /\ at[c][1] = "objects" /\ Enough(0) = {}
  /\ Free(<<at[c][2], 0>>)
  /\ at' = [at EXCEPT ![c] = Idle]
  /\ UNCHANGED <<partial, full, empty, slab, out>>

\* kmalloc() of a size beyond every cache: kalloc().
kalloc ==
  /\ Alloc(0)
  /\ out' = out \cup {Whole(NextBlock(0))}
  /\ UNCHANGED <<partial, full, empty, slab, at>>

kmalloc(s) ==
  LET c == assist_size(s)
  IN \/ c = 0 /\ kalloc
     \/ /\ c # 0 /\ at[c] = Idle /\ Ready
        /\ alloc_partial(c) \/ alloc_empty(c) \/ alloc_header(c)

(***************************************************************************)
(* Release.                                                                 *)
(***************************************************************************)

\* The slabs of list l with objects on page m: one or none.
Owners(l, m) == {s \in Elems(l) : slab[s].mem = m}
Without(l, s) == SelectSeq(l, LAMBDA t : t # s)

\* slab_free() of object i of slab s.
slab_free_NoCount(s, i) == slab' = [slab EXCEPT ![s].freemap = @ \cup {i}]
slab_free(s, i) ==
  slab' = [slab EXCEPT ![s].freemap = @ \cup {i}, ![s].nr_free = @ + 1]

\* The loop at the end of kmem_cache_free() over the empty slabs: the first two
\* stay, the pages of the others go back to kalloc().
Kept == 2
trim(c, e) == at' = [at EXCEPT ![c] = IF Len(e) > Kept THEN <<"trim", e[Kept + 1]>> ELSE Idle]

\* kmem_cache_free() of an object of a partial slab, which may become empty.
free_partial(c, m, i) ==
  \E s \in Owners(partial[c], m) :
    /\ slab_free(s, i)
    /\ \/ /\ slab[s].nr_free + 1 = Capacity(c)
          /\ partial' = [partial EXCEPT ![c] = Without(@, s)]
          /\ empty' = [empty EXCEPT ![c] = <<s>> \o @]
          /\ trim(c, <<s>> \o empty[c])
       \/ /\ slab[s].nr_free + 1 # Capacity(c)
          /\ trim(c, empty[c])
          /\ UNCHANGED <<partial, empty>>
    /\ UNCHANGED full

\* kmem_cache_free() of an object of a full slab, which becomes partial.
free_full(c, m, i) ==
  /\ Owners(partial[c], m) = {}
  /\ \E s \in Owners(full[c], m) :
       /\ slab_free(s, i)
       /\ full' = [full EXCEPT ![c] = Without(@, s)]
       /\ partial' = [partial EXCEPT ![c] = <<s>> \o @]
       /\ trim(c, empty[c])
  /\ UNCHANGED empty

\* A slab that does not stay: kfree() of its objects, then of its header.
trim_objects(c) ==
  /\ at[c][1] = "trim"
  /\ Free(<<slab[at[c][2]].mem, 0>>)
  /\ empty' = [empty EXCEPT ![c] = Without(@, at[c][2])]
  /\ slab' = [slab EXCEPT ![at[c][2]] = NoSlab]
  /\ at' = [at EXCEPT ![c] = <<"header", at[c][2]>>]
  /\ UNCHANGED <<partial, full, out>>

trim_header(c) ==
  /\ at[c][1] = "header"
  /\ Free(<<at[c][2], 0>>)
  /\ trim(c, empty[c])
  /\ UNCHANGED <<partial, full, empty, slab, out>>

\* kmfree() of something the client holds.
kmfree(o) ==
  LET m == o[1]
      i == o[2]
      c == o[3]
  IN /\ out' = out \ {o}
     /\ \/ /\ c # 0 /\ at[c] = Idle
           /\ free_partial(c, m, i) \/ free_full(c, m, i)
           /\ UNCHANGED buddyVars
        \/ /\ c = 0
           /\ Free(<<m, 0>>)
           /\ UNCHANGED <<partial, full, empty, slab, at>>

\* The users of huge pages.
kalloc_huge == Alloc(HUGE_ORDER) /\ UNCHANGED slabVars
kfree_huge == (\E b \in held : b[2] = HUGE_ORDER /\ Free(b)) /\ UNCHANGED slabVars

Init ==
  /\ BuddyInit
  /\ partial = [c \in ObjSizes |-> <<>>]
  /\ full = [c \in ObjSizes |-> <<>>]
  /\ empty = [c \in ObjSizes |-> <<>>]
  /\ slab = [p \in PageNo |-> NoSlab]
  /\ at = [c \in ObjSizes |-> Idle]
  /\ out = {}

CacheStep(c) == alloc_objects(c) \/ alloc_undo(c) \/ trim_objects(c) \/ trim_header(c)

Next ==
  \/ buddy_add_range /\ UNCHANGED slabVars
  \/ \E s \in Sizes : kmalloc(s)
  \/ \E o \in out : kmfree(o)
  \/ \E c \in ObjSizes : CacheStep(c)
  \/ kalloc_huge \/ kfree_huge

Spec == Init /\ [][Next]_vars

(***************************************************************************)
(* Properties.                                                              *)
(***************************************************************************)

Slabs == {s \in PageNo : slab[s] # NoSlab}
OnList(c) == Elems(partial[c]) \cup Elems(full[c]) \cup Elems(empty[c])
Taken(c, s) == {<<slab[s].mem, i, c>> : i \in Indices(c) \ slab[s].freemap}

\* The objects clients hold are the ones the bitmaps of the slabs mark as
\* taken, no more and no fewer; the counts agree with the bitmaps, and every
\* slab is on the list of one cache that its count calls for, so that
\* kmem_cache_alloc() never asks a slab for an object it does not have.
ObjectsExact ==
  /\ {o \in out : o[3] # 0} = UNION {UNION {Taken(c, s) : s \in OnList(c)} : c \in ObjSizes}
  /\ Slabs = UNION {OnList(c) : c \in ObjSizes}
  /\ \A c, d \in ObjSizes : c # d => OnList(c) \cap OnList(d) = {}
  /\ \A c \in ObjSizes :
       /\ \A s \in OnList(c) : slab[s].nr_free = Cardinality(slab[s].freemap)
       /\ Len(partial[c]) + Len(full[c]) + Len(empty[c]) = Cardinality(OnList(c))
       /\ \A s \in Elems(partial[c]) : slab[s].nr_free \in 1..Capacity(c) - 1
       /\ \A s \in Elems(full[c]) : slab[s].nr_free = 0
       /\ \A s \in Elems(empty[c]) : slab[s].nr_free = Capacity(c)

\* The pages the page allocator has given out are the headers and the object
\* pages of slabs, the pages clients hold whole and the header an operation has
\* in hand, each for one use: none is lost, not even by an allocation that
\* fails half-way or while empty slabs are given back, and kfree() of a block
\* that is held never takes it for a double free.
PagesExact ==
  LET mems == {slab[s].mem : s \in Slabs}
      whole == {o[1] : o \in {x \in out : x[3] = 0}}
      inhand == {at[c][2] : c \in {d \in ObjSizes : at[d][1] \in {"objects", "header"}}}
  IN /\ {b[1] : b \in {x \in held : x[2] = 0}} = Slabs \cup mems \cup whole \cup inhand
     /\ Cardinality({b \in held : b[2] = 0}) =
          2 * Cardinality(Slabs) + Cardinality(whole) + Cardinality(inhand)
     /\ \A b \in held : ~FreePanics(b[1], b[2])
=============================================================================
